---- MODULE Spec2Model ----
(***************************************************************************)
(* A model of restic-kit's audit action: AuditAction.Execute and the two   *)
(* check families it runs over the snapshot list of a log directory,       *)
(* checkSizeChanges and checkRetentionPolicy.                              *)
(*                                                                         *)
(* Conventions                                                             *)
(*   - a string is a sequence of one-character strings, so that            *)
(*     strings.Join can be modelled by what it does;                       *)
(*   - a float64 is a record [k, e, m]: k is "zero", "num", "inf" or "nan";*)
(*     for "num" the value is (1 + M / 2^52) * 2^e, M being the 52 stored  *)
(*     bits of the IEEE-754 binary64 significand, held in m.  The values   *)
(*     the audit compares are never negative when compared, so the sign is *)
(*     kept outside the record (see ChangePercent);                        *)
(*   - a timestamp is what time.Parse(time.RFC3339Nano, s) makes of the    *)
(*     string: ok = FALSE for a string that does not parse, otherwise the  *)
(*     civil fields.  All timestamps of a run carry the same zone offset.  *)
(***************************************************************************)
EXTENDS Integers, Sequences, FiniteSets, TLC

----------------------------------------------------------------------------
(* IEEE-754 binary64 arithmetic, as far as line 139 of audit.go uses it.   *)
(* The 52 stored significand bits are held as 4 limbs of 13 bits.          *)

\* 2^13, the base of a limb.
Limb == 8192

\* Limbs of a significand (4 * 13 = 52 stored bits).
NLimbs == 4

FZero == [k |-> "zero", e |-> 0, m |-> <<>>]
FInf == [k |-> "inf", e |-> 0, m |-> <<>>]
FNaN == [k |-> "nan", e |-> 0, m |-> <<>>]

RECURSIVE Pow2(_)
Pow2(n) ==
    IF n = 0 THEN 1 ELSE 2 * Pow2(n - 1)

RECURSIVE Log2(_)
\* The position of the leading bit of n >= 1.
Log2(n) ==
    IF n < 2 THEN 0 ELSE 1 + Log2(n \div 2)

\* float64(n) for 0 <= n < 2^13: exact.
Float64FromInt(n) ==
    IF n = 0 THEN FZero
    ELSE LET e == Log2(n)
         IN  [k |-> "num", e |-> e,
              m |-> [i \in 1..NLimbs |->
                        IF i = 1 THEN (n - Pow2(e)) * Pow2(13 - e) ELSE 0]]

RECURSIVE IncLimbs(_)
\* m + 1 as a limb sequence of the same length; all ones wrap to all zeros.
IncLimbs(m) ==
    IF m = <<>> THEN <<>>
    ELSE LET n == Len(m)
         IN  IF m[n] + 1 < Limb THEN [m EXCEPT ![n] = m[n] + 1]
             ELSE Append(IncLimbs(SubSeq(m, 1, n - 1)), 0)

\* Round to nearest, ties to even: m holds the 52 bits after the leading one,
\* guard is the next bit and sticky says whether any later bit is set.
RoundNearestEven(m, e, guard, sticky) ==
    IF guard /\ (sticky \/ m[NLimbs] % 2 = 1)
    THEN IF \A i \in 1..NLimbs : m[i] = Limb - 1
         THEN [k |-> "num", e |-> e + 1, m |-> [i \in 1..NLimbs |-> 0]]
         ELSE [k |-> "num", e |-> e, m |-> IncLimbs(m)]
    ELSE [k |-> "num", e |-> e, m |-> m]

RECURSIVE ScaleUp(_, _, _)
\* The least t >= 0 with a * 2^t >= b, as <<a * 2^t, t>>.
ScaleUp(a, b, t) ==
    IF a >= b THEN <<a, t>> ELSE ScaleUp(2 * a, b, t + 1)

RECURSIVE ScaleDown(_, _, _)
\* The greatest t >= 0 with b * 2^t <= a, as <<b * 2^t, t>>.
ScaleDown(a, b, t) ==
    IF 2 * b > a THEN <<b, t>> ELSE ScaleDown(a, 2 * b, t + 1)

RECURSIVE QuotientLimbs(_, _, _)
\* n further base-2^13 digits of r / d (0 <= r < d < 2^18), and the remainder.
QuotientLimbs(r, d, n) ==
    IF n = 0 THEN [m |-> <<>>, rem |-> r]
    ELSE LET rest == QuotientLimbs((r * Limb) % d, d, n - 1)
         IN  [m |-> <<(r * Limb) \div d>> \o rest.m, rem |-> rest.rem]

\* float64(a) / float64(b) for integers 0 <= a, b < 2^18, correctly rounded.
\* x/0 is +Inf for x > 0 and NaN for x = 0, as in Go for non-constant operands.
Float64Quo(a, b) ==
    IF b = 0 THEN (IF a = 0 THEN FNaN ELSE FInf)
    ELSE IF a = 0 THEN FZero
    ELSE LET up == ScaleUp(a, b, 0)
             dn == ScaleDown(a, b, 0)
             num == IF a >= b THEN a ELSE up[1]
             den == IF a >= b THEN dn[1] ELSE b
             e == IF a >= b THEN dn[2] ELSE 0 - up[2]
             q == QuotientLimbs(num - den, den, NLimbs)
             guard == 2 * q.rem >= den
             last == IF guard THEN 2 * q.rem - den ELSE 2 * q.rem
         IN  RoundNearestEven(q.m, e, guard, last # 0)

RECURSIVE MulLimbs(_, _, _)
\* (1.m) * c + carry: the limbs of the product behind its integer part,
\* which is the first element of the result.
MulLimbs(m, c, carry) ==
    IF m = <<>> THEN <<c + carry>>
    ELSE LET n == Len(m)
             v == m[n] * c + carry
         IN  Append(MulLimbs(SubSeq(m, 1, n - 1), c, v \div Limb), v % Limb)

\* x * float64(c) for an integer 1 <= c < 2^13, correctly rounded.
Float64MulInt(x, c) ==
    IF x.k # "num" THEN x
    ELSE LET p == MulLimbs(x.m, c, 0)
             s == Log2(p[1])
             cut == Pow2(s)
             m == [i \in 1..NLimbs |->
                      (p[i] % cut) * (Limb \div cut) + (p[i + 1] \div cut)]
             lost == p[NLimbs + 1] % cut
         IN  IF s = 0 THEN [k |-> "num", e |-> x.e, m |-> m]
             ELSE RoundNearestEven(m, x.e + s, lost >= cut \div 2,
                                   lost % (cut \div 2) # 0)

RECURSIVE LimbsLess(_, _)
\* Two significands, compared as numbers.
LimbsLess(x, y) ==
    IF x = <<>> THEN FALSE
    ELSE IF Head(x) # Head(y) THEN Head(x) < Head(y)
    ELSE LimbsLess(Tail(x), Tail(y))

\* x >= y for float64 values that are not negative; false when either is NaN.
Float64GE(x, y) ==
    CASE x.k = "nan" \/ y.k = "nan" -> FALSE
      [] x.k = "inf" -> TRUE
      [] y.k = "inf" -> FALSE
      [] y.k = "zero" -> TRUE
      [] x.k = "zero" -> FALSE
      [] OTHER -> IF x.e # y.e THEN x.e > y.e ELSE ~LimbsLess(x.m, y.m)

----------------------------------------------------------------------------
(* Strings, timestamps and snapshots.                                      *)

RECURSIVE Join(_, _)
\* strings.Join(elems, sep).
Join(elems, sep) ==
    IF elems = <<>> THEN <<>>
    ELSE IF Len(elems) = 1 THEN elems[1]
    ELSE elems[1] \o sep \o Join(Tail(elems), sep)

\* Only the first path of a snapshot taken as its key.
GroupKey_FirstPath(snap) ==
    snap.Paths[1]

\* The key both checks group by: strings.Join(snap.Paths, ", ").
GroupKey(snap) ==
    Join(snap.Paths, <<",", " ">>)

\* The civil fields of a timestamp, UTC.
Civil(y, mo, d, h, mi) ==
    [ok |-> TRUE, y |-> y, mo |-> mo, d |-> d, h |-> h, mi |-> mi]

\* A Time string that is not RFC 3339.
BadTime == [ok |-> FALSE, y |-> 0, mo |-> 0, d |-> 0, h |-> 0, mi |-> 0]

\* time.Parse(time.RFC3339Nano, s): the time and whether err == nil.  On an
\* error the time is the zero Time, January 1 of year 1, 00:00 UTC.
ParseTime(s) ==
    IF s.ok THEN [t |-> s, err |-> FALSE]
    ELSE [t |-> Civil(1, 1, 1, 0, 0), err |-> TRUE]

\* t.Before(u).
Before(t, u) ==
    LET a == <<t.y, t.mo, t.d, t.h, t.mi>>
        b == <<u.y, u.mo, u.d, u.h, u.mi>>
    IN  \E i \in 1..5 : a[i] < b[i] /\ \A j \in 1..(i - 1) : a[j] = b[j]

\* The permutations of 1..n, as functions.
IndexPerms(n) ==
    {p \in [1..n -> 1..n] : \A i, j \in 1..n : i # j => p[i] # p[j]}

\* The orders in which a range over a map with these keys can visit them.
MapOrders(keys) ==
    {[i \in 1..Cardinality(keys) |-> f[i]] :
        f \in {g \in [1..Cardinality(keys) -> keys] :
                  \A i, j \in 1..Cardinality(keys) : i # j => g[i] # g[j]}}

\* groupedByPath: every key with its snapshots, in input order.
GroupByPath(snapshots) ==
    [key \in {GroupKey(snapshots[i]) : i \in 1..Len(snapshots)} |->
        SelectSeq(snapshots, LAMBDA snap : GroupKey(snap) = key)]

RECURSIVE Flatten(_)
\* append(append(nil, seqs[1]...), seqs[2]...) and so on.
Flatten(seqs) ==
    IF seqs = <<>> THEN <<>> ELSE Head(seqs) \o Flatten(Tail(seqs))

----------------------------------------------------------------------------
(* checkSizeChanges.                                                       *)

\* The less function of the sort: the parse error is dropped, so a Time that
\* does not parse sorts as the zero Time.
LessByTime(a, b) ==
    Before(ParseTime(a.Time).t, ParseTime(b.Time).t)

\* The slice left in input order.
SortByTime_InputOrder(snaps) ==
    {snaps}

\* sort.Slice(snaps, less): the slice in an order with no pair out of order.
\* sort.Slice is not stable; which of the orders of equal elements comes out
\* depends on the input order and the length, so every one is possible.
SortByTime(snaps) ==
    {[i \in 1..Len(snaps) |-> snaps[p[i]]] :
        p \in {q \in IndexPerms(Len(snaps)) :
                  \A i, j \in 1..Len(snaps) :
                      i < j => ~LessByTime(snaps[q[j]], snaps[q[i]])}}

\* changePercent of line 139: float64(curr-prev) / float64(prev) * 100, as
\* its sign and its magnitude.
ChangePercent(prev, curr) ==
    LET d == curr.Size - prev.Size
    IN  [neg |-> d < 0,
         abs |-> Float64MulInt(Float64Quo(IF d < 0 THEN 0 - d ELSE d, prev.Size), 100)]

\* changePercent > 0.
IsPositive(cp) ==
    ~cp.neg /\ cp.abs.k \in {"num", "inf"}

\* The two thresholds taken for one another.
Applicable_Swapped(cp, cfg) ==
    IF IsPositive(cp)
    THEN [threshold |-> cfg.ShrinkThreshold, checkType |-> "size_growth"]
    ELSE [threshold |-> cfg.GrowThreshold, checkType |-> "size_shrink"]

\* threshold and checkType of lines 141-150.
Applicable(cp, cfg) ==
    IF IsPositive(cp)
    THEN [threshold |-> cfg.GrowThreshold, checkType |-> "size_growth"]
    ELSE [threshold |-> cfg.ShrinkThreshold, checkType |-> "size_shrink"]

\* The comparison is never skipped.
PreviousIsZero_Never(prev) ==
    FALSE

\* Line 135: the comparison is skipped.
PreviousIsZero(prev) ==
    prev.Size = 0

\* The body of the loop for one group whose snapshots are sorted: the
\* violations it appends.
CompareLatest(path, snaps, cfg) ==
    LET prev == snaps[Len(snaps) - 1]
        curr == snaps[Len(snaps)]
        cp == ChangePercent(prev, curr)
        ap == Applicable(cp, cfg)
    IN  IF PreviousIsZero(prev) THEN <<>>
        ELSE IF Float64GE(cp.abs, Float64FromInt(ap.threshold))
        THEN <<[CheckType |-> ap.checkType, Path |-> path,
                previous_time |-> prev.Time, current_time |-> curr.Time,
                previous_size |-> prev.Size, current_size |-> curr.Size,
                threshold |-> ap.threshold]>>
        ELSE <<>>

\* What one iteration of the loop over groupedByPath can append.
GroupSizeViolations(path, snaps, cfg) ==
    IF Len(snaps) < 2 THEN {<<>>}
    ELSE {CompareLatest(path, sorted, cfg) : sorted \in SortByTime(snaps)}

\* checkSizeChanges(snapshots): the violation lists it can return, over the
\* iteration orders of the map and the outcomes of the sort.
checkSizeChanges(snapshots, cfg) ==
    LET grouped == GroupByPath(snapshots)
        keys == DOMAIN grouped
    IN  {Flatten([i \in 1..Len(order) |-> pick[order[i]]]) :
            order \in MapOrders(keys),
            pick \in {f \in [keys -> UNION {GroupSizeViolations(k, grouped[k], cfg) : k \in keys}] :
                         \A k \in keys : f[k] \in GroupSizeViolations(k, grouped[k], cfg)}}

----------------------------------------------------------------------------
(* The calendar of package time, as far as checkRetentionPolicy uses it.   *)

\* time.Sunday and time.Monday.
Sunday == 0
Monday == 1

IsLeap(y) ==
    y % 4 = 0 /\ (y % 100 # 0 \/ y % 400 = 0)

DaysIn(y, mo) ==
    CASE mo = 2 -> IF IsLeap(y) THEN 29 ELSE 28
      [] mo \in {4, 6, 9, 11} -> 30
      [] OTHER -> 31

\* Days from January 1 of year 1 to January 1 of year y.
DaysBeforeYear(y) ==
    365 * (y - 1) + (y - 1) \div 4 - (y - 1) \div 100 + (y - 1) \div 400

RECURSIVE DaysBeforeMonth(_, _)
\* Days from January 1 of year y to the first of month mo of that year.
DaysBeforeMonth(y, mo) ==
    IF mo = 1 THEN 0 ELSE DaysBeforeMonth(y, mo - 1) + DaysIn(y, mo - 1)

\* Days from January 1 of year 1 to the date of t.
AbsDays(t) ==
    DaysBeforeYear(t.y) + DaysBeforeMonth(t.y, t.mo) + (t.d - 1)

\* t.Weekday(): January 1 of year 1 is a Monday.
Weekday(t) ==
    (AbsDays(t) + Monday) % 7

\* The date n days after January 1 of year 1, at the clock time of t.
DateOf(n, t) ==
    LET y == CHOOSE c \in (n \div 366 + 1)..(n \div 365 + 1) :
                 DaysBeforeYear(c) <= n /\ n < DaysBeforeYear(c + 1)
        r == n - DaysBeforeYear(y)
        mo == CHOOSE c \in 1..12 :
                  DaysBeforeMonth(y, c) <= r /\ r < DaysBeforeMonth(y, c) + DaysIn(y, c)
    IN  Civil(y, mo, r - DaysBeforeMonth(y, mo) + 1, t.h, t.mi)

\* t.AddDate(0, 0, days): the date is normalised as time.Date does.
AddDate(t, days) ==
    DateOf(AbsDays(t) + days, t)

\* a % b of Go for b > 0: the remainder has the sign of a.
GoRem(a, b) ==
    IF a >= 0 THEN a % b ELSE 0 - ((0 - a) % b)

\* The offset taken without the 7 that keeps a Sunday in its own week.
WeekStart_NoWrap(t) ==
    AddDate(t, GoRem(0 - (Weekday(t) - Monday), 7))

\* weekStart of line 389: -int(t.Weekday()-time.Monday+7)%7 is (-x) % 7.
WeekStart(t) ==
    AddDate(t, GoRem(0 - (Weekday(t) - Monday + 7), 7))

\* The hour of the day alone as the key.
HourlyKey_HourOnly(t) == <<t.h>>

\* The groupBy functions of lines 381-397.  A key is the tuple of numbers
\* that Sprintf prints, separated by "-": equal tuples, equal strings.
HourlyKey(t) == <<t.y, t.mo, t.d, t.h>>
DailyKey(t) == <<t.y, t.mo, t.d>>
WeeklyKey(t) == <<WeekStart(t).y, WeekStart(t).mo, WeekStart(t).d>>
MonthlyKey(t) == <<t.y, t.mo>>
YearlyKey(t) == <<t.y>>

\* policy.groupBy(t).
BucketKey(name, t) ==
    CASE name = "hourly" -> HourlyKey(t)
      [] name = "daily" -> DailyKey(t)
      [] name = "weekly" -> WeeklyKey(t)
      [] name = "monthly" -> MonthlyKey(t)
      [] name = "yearly" -> YearlyKey(t)

----------------------------------------------------------------------------
(* checkRetentionPolicy.                                                   *)

\* policies of lines 376-398, in their order.
Policies(cfg) ==
    << [name |-> "hourly", keep |-> cfg.KeepHourly],
       [name |-> "daily", keep |-> cfg.KeepDaily],
       [name |-> "weekly", keep |-> cfg.KeepWeekly],
       [name |-> "monthly", keep |-> cfg.KeepMonthly],
       [name |-> "yearly", keep |-> cfg.KeepYearly] >>

\* "retention_" + policy.name.
RetentionType(name) ==
    CASE name = "hourly" -> "retention_hourly"
      [] name = "daily" -> "retention_daily"
      [] name = "weekly" -> "retention_weekly"
      [] name = "monthly" -> "retention_monthly"
      [] name = "yearly" -> "retention_yearly"

\* The snapshots whose Time does not parse kept, at the zero Time.
SnapsWithTime_ZeroTime(snaps) ==
    [i \in 1..Len(snaps) |-> ParseTime(snaps[i].Time).t]

\* snapsWithTime: the times of the snapshots whose Time parses, in input
\* order.  (The sort that follows has no effect on what is counted.)
SnapsWithTime(snaps) ==
    LET parsed == SelectSeq(snaps, LAMBDA snap : ~ParseTime(snap.Time).err)
    IN  [i \in 1..Len(parsed) |-> ParseTime(parsed[i].Time).t]

\* The snapshots counted in place of the buckets.
BucketCount_Snapshots(name, times) ==
    Len(times)

\* len(buckets) for one policy.
BucketCount(name, times) ==
    Cardinality({BucketKey(name, times[i]) : i \in 1..Len(times)})

\* No policy is skipped.
Disabled_Never(policy) ==
    FALSE

\* Line 401: the policy is skipped.
Disabled(policy) ==
    policy.keep = 0

\* The body of the loop over policies for one policy.
CheckPolicy(path, policy, times) ==
    IF Disabled(policy) THEN <<>>
    ELSE IF BucketCount(policy.name, times) > policy.keep
    THEN <<[CheckType |-> RetentionType(policy.name), Path |-> path,
            policy |-> policy.name,
            actual |-> BucketCount(policy.name, times),
            expected |-> policy.keep,
            total_snaps |-> Len(times)]>>
    ELSE <<>>

\* What one iteration of the loop over groupedByPath appends.
GroupRetentionViolations(path, snaps, cfg) ==
    Flatten([i \in 1..Len(Policies(cfg)) |->
                CheckPolicy(path, Policies(cfg)[i], SnapsWithTime(snaps))])

\* checkRetentionPolicy(snapshots): the violation lists it can return, over
\* the iteration orders of the map.
checkRetentionPolicy(snapshots, cfg) ==
    LET grouped == GroupByPath(snapshots)
    IN  {Flatten([i \in 1..Len(order) |->
                     GroupRetentionViolations(order[i], grouped[order[i]], cfg)]) :
            order \in MapOrders(DOMAIN grouped)}

----------------------------------------------------------------------------
(* The log directory scan: file names, exit codes, classification.         *)

\* The characters of file names and paths, in the order of their codes.
Alphabet ==
    <<" ", ",", ".", "/", "a", "b", "c", "d", "e", "f", "g", "h", "i", "j", "k", "l", "m",
      "n", "o", "p", "q", "r", "s", "t", "u", "v", "w", "x", "y", "z">>

Ord(c) ==
    CHOOSE i \in 1..Len(Alphabet) : Alphabet[i] = c

\* a < b for strings, as sort.Strings compares them.
StrLess(a, b) ==
    \E i \in 1..Len(b) :
        /\ \A j \in 1..(i - 1) : j <= Len(a) /\ a[j] = b[j]
        /\ (i > Len(a) \/ Ord(a[i]) < Ord(b[i]))

\* strings.HasPrefix(s, prefix).
HasPrefix(s, prefix) ==
    Len(s) >= Len(prefix) /\ SubSeq(s, 1, Len(prefix)) = prefix

\* strings.TrimPrefix(s, prefix).
TrimPrefix(s, prefix) ==
    IF HasPrefix(s, prefix) THEN SubSeq(s, Len(prefix) + 1, Len(s)) ELSE s

ExitcodeSuffix == <<".", "e", "x", "i", "t", "c", "o", "d", "e">>
BackupPrefix == <<"b", "a", "c", "k", "u", "p", ".">>
CheckBase == <<"c", "h", "e", "c", "k">>
SnapshotsBase == <<"s", "n", "a", "p", "s", "h", "o", "t", "s">>
ForgetBase == <<"f", "o", "r", "g", "e", "t">>

\* The name of the exit-code file of an artifact: <base>.exitcode.
ExitcodeFile(base) ==
    base \o ExitcodeSuffix

\* determineActionType(exitcodeFile), on the base name that is left once
\* the directory and the suffix ".exitcode" are cut off: <<type, name>>.
determineActionType_Default(base) ==
    IF HasPrefix(base, BackupPrefix) THEN <<"backup", TrimPrefix(base, BackupPrefix)>>
    ELSE IF base = CheckBase THEN <<"check", base>>
    ELSE IF base = SnapshotsBase THEN <<"snapshots", base>>
    ELSE <<"forget", base>>

determineActionType(base) ==
    IF HasPrefix(base, BackupPrefix) THEN <<"backup", TrimPrefix(base, BackupPrefix)>>
    ELSE IF base = CheckBase THEN <<"check", base>>
    ELSE IF base = SnapshotsBase THEN <<"snapshots", base>>
    ELSE IF base = ForgetBase THEN <<"forget", base>>
    ELSE <<"unknown", base>>

\* White space as strings.TrimSpace sees it.
IsSpace(c) ==
    c \in {" ", "\n", "\t", "\r"}

RECURSIVE TrimLeft(_)
TrimLeft(s) ==
    IF s # <<>> /\ IsSpace(Head(s)) THEN TrimLeft(Tail(s)) ELSE s

RECURSIVE TrimRight(_)
TrimRight(s) ==
    IF s # <<>> /\ IsSpace(s[Len(s)]) THEN TrimRight(SubSeq(s, 1, Len(s) - 1)) ELSE s

\* strings.TrimSpace(s).
TrimSpace(s) ==
    TrimRight(TrimLeft(s))

Digits == <<"0", "1", "2", "3", "4", "5", "6", "7", "8", "9">>

IsDigit(c) ==
    \E i \in 1..Len(Digits) : Digits[i] = c

DigitValue(c) ==
    (CHOOSE i \in 1..Len(Digits) : Digits[i] = c) - 1

RECURSIVE DecimalValue(_)
DecimalValue(s) ==
    IF s = <<>> THEN 0
    ELSE DecimalValue(SubSeq(s, 1, Len(s) - 1)) * 10 + DigitValue(s[Len(s)])

\* strconv.Atoi(s): an optional sign and at least one decimal digit.
Atoi(s) ==
    LET signed == s # <<>> /\ Head(s) \in {"+", "-"}
        digits == IF signed THEN Tail(s) ELSE s
    IN  IF digits # <<>> /\ \A i \in 1..Len(digits) : IsDigit(digits[i])
        THEN [code |-> IF signed /\ Head(s) = "-" THEN 0 - DecimalValue(digits)
                       ELSE DecimalValue(digits),
              err |-> FALSE]
        ELSE [code |-> 0, err |-> TRUE]

\* readExitCode on the content of an exit-code file.
readExitCode(content) ==
    IF Atoi(TrimSpace(content)).err THEN [code |-> 0 - 1, err |-> TRUE]
    ELSE [code |-> Atoi(TrimSpace(content)).code, err |-> FALSE]

----------------------------------------------------------------------------
(* The parsers of the output files.  An output is the sequence of lines    *)
(* that strings.Split(content, "\n") makes of it; a line is known by what  *)
(* encoding/json makes of it: white space only ("blank"), a JSON object    *)
(* with the fields of ResticMessage it carries ("object"), a JSON array of *)
(* objects with their snapshots, keep and remove lists ("array"), a line   *)
(* that starts with "[" and is not valid JSON ("badarray"), or any other   *)
(* text ("text").                                                          *)

BlankLine ==
    [kind |-> "blank", files_new |-> 0, num_errors |-> 0, groups |-> <<>>]
TextLine ==
    [kind |-> "text", files_new |-> 0, num_errors |-> 0, groups |-> <<>>]
BadArrayLine ==
    [kind |-> "badarray", files_new |-> 0, num_errors |-> 0, groups |-> <<>>]
ObjectLine(filesNew, numErrors) ==
    [kind |-> "object", files_new |-> filesNew, num_errors |-> numErrors,
     groups |-> <<>>]
ArrayLine(groups) ==
    [kind |-> "array", files_new |-> 0, num_errors |-> 0, groups |-> groups]

\* One element of a snapshots or forget array.
Group(snaps, keep, remove) ==
    [snapshots |-> snaps, keep |-> keep, remove |-> remove]

\* What a parser returns when it fails, and the zero summary.
NoSummary ==
    [files_new |-> 0, num_errors |-> 0, snapshots |-> <<>>, kept |-> <<>>,
     removed |-> 0]

ParseError ==
    [summary |-> NoSummary, err |-> TRUE]

Parsed(summary) ==
    [summary |-> summary, err |-> FALSE]

\* The lines of an output that are not blank.
NonBlank(content) ==
    SelectSeq(content, LAMBDA line : line.kind # "blank")

\* json.Unmarshal of a whole output: the one JSON value it holds, if it is one.
WholeValue(content) ==
    IF Len(NonBlank(content)) = 1 THEN NonBlank(content)[1] ELSE TextLine

\* The summary taken from the first non-empty line.
ParseBackupOutput_FirstLine(content, success) ==
    LET lines == NonBlank(content)
    IN  IF lines = <<>> THEN Parsed(NoSummary)
        ELSE IF lines[1].kind = "object"
        THEN Parsed([NoSummary EXCEPT !.files_new = lines[1].files_new])
        ELSE ParseError

\* ParseBackupOutput(content, success): the summary of the last non-empty line.
ParseBackupOutput(content, success) ==
    LET lines == NonBlank(content)
        lastLine == lines[Len(lines)]
    IN  IF lines = <<>> THEN Parsed(NoSummary)
        ELSE IF lastLine.kind = "object"
        THEN Parsed([NoSummary EXCEPT !.files_new = lastLine.files_new])
        ELSE ParseError

\* ParseCheckOutput(content, success).
ParseCheckOutput(content, success) ==
    LET msg == WholeValue(content)
    IN  IF msg.kind = "object"
        THEN Parsed([NoSummary EXCEPT !.num_errors = msg.num_errors])
        ELSE ParseError

\* ParseSnapshotsOutput(content): the snapshots of all groups.
ParseSnapshotsOutput(content) ==
    LET value == WholeValue(content)
    IN  IF value.kind = "array"
        THEN Parsed([NoSummary EXCEPT !.snapshots =
                        Flatten([i \in 1..Len(value.groups) |->
                                    value.groups[i].snapshots])])
        ELSE ParseError

RECURSIVE SumRemoved(_)
\* removedCount += len(group.Remove), over the groups.
SumRemoved(groups) ==
    IF groups = <<>> THEN 0
    ELSE Len(Head(groups).remove) + SumRemoved(Tail(groups))

\* ParseForgetOutput(content): the kept snapshots and the removed count of
\* the first line that starts with "[".
ParseForgetOutput(content) ==
    LET starts == SelectSeq(content, LAMBDA line : line.kind \in {"array", "badarray"})
    IN  IF starts = <<>> THEN ParseError
        ELSE IF starts[1].kind = "badarray" THEN ParseError
        ELSE Parsed([NoSummary EXCEPT
                        !.kept = Flatten([i \in 1..Len(starts[1].groups) |->
                                             starts[1].groups[i].keep]),
                        !.removed = SumRemoved(starts[1].groups)])

----------------------------------------------------------------------------
(* analyzeBackupResults.  A log directory is [exists, files]; a file of it *)
(* is one exit-code file with its sibling output: [base, mtime, exitcode,  *)
(* out], out being [present, content].                                     *)

\* The files in the order of their names.
SortedByName(files) ==
    CHOOSE q \in [1..Cardinality(files) -> files] :
        \A i, j \in 1..Cardinality(files) :
            i < j => StrLess(ExitcodeFile(q[i].base), ExitcodeFile(q[j].base))

\* filepath.Glob(logDir/*.exitcode): the matches sorted by name; nothing, and
\* no error, when the directory cannot be read.
Glob(dir) ==
    IF dir.exists THEN SortedByName(dir.files) ELSE <<>>

\* A missing output read as an empty one.
ReadOutFile_Lenient(file) ==
    [content |-> file.out.content, err |-> FALSE]

\* os.ReadFile(outFile).
ReadOutFile(file) ==
    [content |-> file.out.content, err |-> ~file.out.present]

\* The summary kept only for an action that succeeded.
ActionResult_SummaryOnSuccess(type, name, success, summary, file) ==
    [Type |-> type, Name |-> name, Success |-> success,
     Summary |-> IF success THEN summary ELSE NoSummary, OutFile |-> file.base]

\* The ActionResult appended for a file.
ActionResult(type, name, success, summary, file) ==
    [Type |-> type, Name |-> name, Success |-> success, Summary |-> summary,
     OutFile |-> file.base]

\* What analyzeBackupResults returns: actions, overallSuccess, err.
Analysis(actions, success, err) ==
    [actions |-> actions, overallSuccess |-> success, err |-> err]

\* Only the backups counted.
determineOverallSuccess_BackupsOnly(actions) ==
    \A i \in 1..Len(actions) : actions[i].Type = "backup" => actions[i].Success

\* determineOverallSuccessFromActions(actions).
determineOverallSuccessFromActions(actions) ==
    \A i \in 1..Len(actions) : actions[i].Success

\* The switch of lines 272-319 for one file: the parse of its output for its
\* type, and whether a result is appended.
ParseForType(type, content, success) ==
    CASE type = "backup" ->
            [appended |-> TRUE, parse |-> ParseBackupOutput(content, success),
             err |-> "failed to parse backup output"]
      [] type = "check" ->
            [appended |-> TRUE, parse |-> ParseCheckOutput(content, success),
             err |-> "failed to parse check output"]
      [] type = "snapshots" ->
            [appended |-> TRUE, parse |-> ParseSnapshotsOutput(content),
             err |-> "failed to parse snapshots output"]
      [] type = "forget" ->
            [appended |-> TRUE, parse |-> Parsed(NoSummary), err |-> "nil"]
      [] OTHER ->
            [appended |-> FALSE, parse |-> Parsed(NoSummary), err |-> "nil"]

\* success := exitCode == 0.
IsSuccessCode(code) ==
    code = 0

RECURSIVE AnalyzeFiles(_, _)
\* The loop of lines 255-320 over the files that are left, actions being the
\* results appended so far; and lines 322-323 after it.
AnalyzeFiles(files, actions) ==
    IF files = <<>>
    THEN Analysis(actions, determineOverallSuccessFromActions(actions), "nil")
    ELSE LET file == Head(files)
             type == determineActionType(file.base)[1]
             name == determineActionType(file.base)[2]
             exit == readExitCode(file.exitcode)
             success == IsSuccessCode(exit.code)
             out == ReadOutFile(file)
             step == ParseForType(type, out.content, success)
         IN  IF exit.err THEN Analysis(<<>>, FALSE, "failed to read exit code")
             ELSE IF out.err THEN Analysis(<<>>, FALSE, "failed to read output file")
             ELSE IF step.parse.err THEN Analysis(<<>>, FALSE, step.err)
             ELSE IF step.appended
             THEN AnalyzeFiles(Tail(files),
                      Append(actions, ActionResult(type, name, success,
                                                   step.parse.summary, file)))
             ELSE AnalyzeFiles(Tail(files), actions)

\* analyzeBackupResults(logDir).
analyzeBackupResults(dir) ==
    AnalyzeFiles(Glob(dir), <<>>)

\* What the callers hold before analyzeBackupResults has returned.
NoAnalysis ==
    Analysis(<<>>, FALSE, "none")

----------------------------------------------------------------------------
(* The state: one run of the audit over one log directory.                 *)

VARIABLES
    args,            \* len(args) of Execute
    snapshotsOut,    \* <logDir>/snapshots.out: its state ("missing",
                     \* "malformed" or "ok") and, when ok, the snapshots
                     \* that ParseSnapshotsOutput returns for it
    config,          \* AuditConfig; NotifyEmailConfig is TRUE when not nil
    dryRun,          \* the --dry-run flag
    pc,              \* the statement of Execute that runs next
    snapshots,       \* the local snapshots of Execute
    sizeViolations,  \* what checkSizeChanges returned
    retentionViolations, \* what checkRetentionPolicy returned
    failedChecks,    \* the local failedChecks of Execute
    mail,            \* what sendAuditEmail did: printed the body, called
                     \* DialAndSend, and whether that call delivered
    result,          \* the error Execute returned; "none" while it runs
    command,         \* the command that runs: "audit", "notify-email",
                     \* "notify-http" or "cleanup"
    logDir,          \* the log directory: whether it exists and its
                     \* exit-code files with their outputs
    analysis,        \* what analyzeBackupResults returned to the command
    report,          \* the subject, body and attachments notify-email made
    http,            \* the URL of notify-http, the URLs it requested and
                     \* the answer it got
    wait             \* wait-online: its configuration, the time since
                     \* startTime, the local delay, the delays slept and
                     \* the time at which the URL answered 2xx

\* The state of the commands that analyze the log directory.
logVars ==
    <<command, logDir, analysis, report, http, wait>>

vars ==
    <<args, snapshotsOut, config, dryRun, pc, snapshots, sizeViolations,
      retentionViolations, failedChecks, mail, result, command, logDir,
      analysis, report, http, wait>>

\* Bounds of the inputs.
MaxSizeSnaps == 3
MaxRetentionSnaps == 3
MaxWeeklySnaps == 3
MaxAuditSnaps == 2
MaxArgs == 2
MaxFiles == 2
MaxMtime == 2
MaxRequest == 1
MaxReportSnaps == 3
MaxLines == 3
MaxCheckSnaps == 3
MaxOrderSnaps == 4

NoMail == [printed |-> FALSE, dialed |-> 0, delivered |-> FALSE]

\* The paths of a snapshot: one directory, or two.
PathA == <<"/", "a">>
PathB == <<"/", "b">>
PathLists == {<<PathA>>, <<PathA, PathB>>}

\* Three instants of one day.
T1 == Civil(2025, 1, 1, 0, 0)
T2 == Civil(2025, 1, 1, 1, 0)
T3 == Civil(2025, 1, 1, 2, 0)

\* Sequences over S of length at most n.
SeqUpTo(S, n) ==
    UNION {[1..k -> S] : k \in 0..n}

Snapshot(time, paths, size) ==
    [Time |-> time, Paths |-> paths, Size |-> size]

Config(grow, shrink, keeps, email) ==
    [GrowThreshold |-> grow, ShrinkThreshold |-> shrink,
     KeepHourly |-> keeps[1], KeepDaily |-> keeps[2], KeepWeekly |-> keeps[3],
     KeepMonthly |-> keeps[4], KeepYearly |-> keeps[5],
     NotifyEmailConfig |-> email]

NoKeep == <<0, 0, 0, 0, 0>>

File(state, content) ==
    [state |-> state, snapshots |-> content]

\* No report made yet.
NoReport ==
    [subject |-> "", body |-> <<>>, attachments |-> <<>>]

\* A log directory with its files.
Dir(files) ==
    [exists |-> TRUE, files |-> files]

\* No directory of that name.
NoDir ==
    [exists |-> FALSE, files |-> {}]

\* notify-http before it has requested anything.
HTTP(url) ==
    [url |-> url, requested |-> <<>>, answer |-> "none"]

\* The configuration of wait-online.
WaitOnlineConfig(timeout, initialDelay, maxDelay) ==
    [Timeout |-> timeout, InitialDelay |-> initialDelay, MaxDelay |-> maxDelay]

\* The defaults of the flags, in seconds: 5 minutes, 1 second, 30 seconds.
DefaultTimeout == 300
DefaultInitialDelay == 1
DefaultMaxDelay == 30

\* ValidateWaitOnlineConfig(cfg): the defaults set, and nothing refused.
ValidateWaitOnlineConfig(cfg) ==
    [Timeout |-> IF cfg.Timeout = 0 THEN DefaultTimeout ELSE cfg.Timeout,
     InitialDelay |-> IF cfg.InitialDelay = 0 THEN DefaultInitialDelay
                      ELSE cfg.InitialDelay,
     MaxDelay |-> IF cfg.MaxDelay = 0 THEN DefaultMaxDelay ELSE cfg.MaxDelay]

\* wait-online with its configuration, before Execute.
Wait(cfg) ==
    [config |-> cfg, now |-> 0, delay |-> 0, sleeps |-> <<>>, reachedAt |-> -1]

\* wait-online does not run.
NoWait ==
    Wait(WaitOnlineConfig(0, 0, 0))

\* The audit command runs; the other commands' state is idle.
AuditRuns ==
    /\ command = "audit"
    /\ logDir = Dir({})
    /\ http = HTTP(<<>>)

\* What the locals of Execute hold before it runs.
Fresh ==
    /\ sizeViolations = <<>>
    /\ retentionViolations = <<>>
    /\ failedChecks = <<>>
    /\ mail = NoMail
    /\ result = "none"
    /\ analysis = NoAnalysis
    /\ report = NoReport
    /\ wait = NoWait

----------------------------------------------------------------------------
(* Execute, statement by statement.                                        *)

\* Lines 229-239: the argument check and readSnapshots.
ReadSnapshots ==
    /\ pc = "Execute"
    /\ IF args # 1
       THEN /\ result' = "usage"
            /\ pc' = "done"
            /\ UNCHANGED snapshots
       ELSE IF snapshotsOut.state \in {"missing", "malformed"}
       THEN /\ result' = "failed to read snapshots"
            /\ pc' = "done"
            /\ UNCHANGED snapshots
       ELSE /\ snapshots' = snapshotsOut.snapshots
            /\ pc' = "checkSizeChanges"
            /\ UNCHANGED result
    /\ UNCHANGED <<args, snapshotsOut, config, dryRun, sizeViolations,
                   retentionViolations, failedChecks, mail>>
    /\ UNCHANGED logVars

\* Lines 245-246.
CheckSizeChanges ==
    /\ pc = "checkSizeChanges"
    /\ \E v \in checkSizeChanges(snapshots, config) :
          /\ sizeViolations' = v
          /\ failedChecks' = failedChecks \o v
    /\ pc' = "checkRetentionPolicy"
    /\ UNCHANGED <<args, snapshotsOut, config, dryRun, snapshots,
                   retentionViolations, mail, result>>
    /\ UNCHANGED logVars

\* The retention violations left out of failedChecks.
AppendRetention_Dropped(failed, violations) ==
    failed

\* Line 250: failedChecks = append(failedChecks, retentionViolations...).
AppendRetention(failed, violations) ==
    failed \o violations

\* Lines 249-250.
CheckRetentionPolicy ==
    /\ pc = "checkRetentionPolicy"
    /\ \E v \in checkRetentionPolicy(snapshots, config) :
          /\ retentionViolations' = v
          /\ failedChecks' = AppendRetention(failedChecks, v)
    /\ pc' = "sendAuditEmail"
    /\ UNCHANGED <<args, snapshotsOut, config, dryRun, snapshots,
                   sizeViolations, mail, result>>
    /\ UNCHANGED logVars

\* sendAuditEmail(failedChecks, dryRun), lines 434-459: what it does and
\* whether it returns an error.  DialAndSend succeeds or fails.
sendAuditEmail(dry) ==
    IF dry
    THEN {[mail |-> [mail EXCEPT !.printed = TRUE], err |-> FALSE]}
    ELSE {[mail |-> [mail EXCEPT !.dialed = mail.dialed + 1, !.delivered = ok],
           err |-> ~ok] : ok \in BOOLEAN}

\* The e-mail sent whenever it is configured.
ShouldNotify_ConfigOnly(failed, cfg) ==
    cfg.NotifyEmailConfig

\* The condition of line 253.
ShouldNotify(failed, cfg) ==
    Len(failed) > 0 /\ cfg.NotifyEmailConfig

\* Lines 253-257.
SendAuditEmail ==
    /\ pc = "sendAuditEmail"
    /\ IF ShouldNotify(failedChecks, config)
       THEN \E r \in sendAuditEmail(dryRun) :
               /\ mail' = r.mail
               /\ result' = IF r.err THEN "failed to send audit email" ELSE result
               /\ pc' = IF r.err THEN "done" ELSE "report"
       ELSE /\ pc' = "report"
            /\ UNCHANGED <<mail, result>>
    /\ UNCHANGED <<args, snapshotsOut, config, dryRun, snapshots, sizeViolations,
                   retentionViolations, failedChecks>>
    /\ UNCHANGED logVars

\* Lines 260-269.
Report ==
    /\ pc = "report"
    /\ result' = IF Len(failedChecks) > 0 THEN "audit checks failed" ELSE "nil"
    /\ pc' = "done"
    /\ UNCHANGED <<args, snapshotsOut, config, dryRun, snapshots, sizeViolations,
                   retentionViolations, failedChecks, mail>>
    /\ UNCHANGED logVars

----------------------------------------------------------------------------
(* The commands that analyze the log directory: notify-email, notify-http  *)
(* and cleanup.  Each Execute is one step.                                 *)

\* A line of the body: the section it belongs to, the marker and the name of
\* the action it is about, and its words.
BodyLine(section, marker, name, text) ==
    [section |-> section, marker |-> marker, name |-> name, text |-> text]

\* statusEmoji.
Marker(success) ==
    IF success THEN "check mark" ELSE "cross mark"

\* The results of one type, in the order of the list.
OfType(actions, type) ==
    SelectSeq(actions, LAMBDA a : a.Type = type)

\* The section of one backup: its heading and its Files line.
BackupLines(a) ==
    <<BodyLine("backup", Marker(a.Success), a.Name,
               <<"Files:", ToString(a.Summary.files_new), "new">>)>>

\* info["status"] of a check, and its line.
CheckLines(a) ==
    <<BodyLine("check", Marker(a.Success), <<>>,
               <<IF a.Summary.num_errors = 0 THEN "PASSED" ELSE "FAILED">>)>>

\* The line of one forget: its name and "successful" or "failed".
ForgetLines(a) ==
    <<BodyLine("forget", Marker(a.Success), a.Name,
               <<IF a.Success THEN "successful" ELSE "failed">>)>>

\* A heading and the lines of the results under it; nothing without results.
Section(heading, lines) ==
    IF lines = <<>> THEN <<>>
    ELSE <<BodyLine(heading, "", <<>>, <<"heading">>)>> \o Flatten(lines)

RECURSIVE InsertSorted(_, _)
\* A string put at its place in a sorted list.
InsertSorted(x, sorted) ==
    IF sorted = <<>> THEN <<x>>
    ELSE IF StrLess(x, Head(sorted)) THEN <<x>> \o sorted
    ELSE <<Head(sorted)>> \o InsertSorted(x, Tail(sorted))

\* The keys left in the order in which the map gave them.
SortStrings_Unsorted(paths) ==
    paths

RECURSIVE SortStrings(_)
\* sort.Strings(paths).
SortStrings(paths) ==
    IF paths = <<>> THEN <<>>
    ELSE InsertSorted(Head(paths), SortStrings(Tail(paths)))

\* timeStr of a row: the time as "2006-01-02 15:04", or the string as it is
\* when it does not parse.
TimeStr(time) ==
    IF ParseTime(time).err THEN <<"unparsed">>
    ELSE <<ToString(time.y), ToString(time.mo), ToString(time.d),
           ToString(time.h), ToString(time.mi)>>

\* The table of one path: its Path line and one row for each of its
\* snapshots, in the order of the slice.  (Of a row the time is kept.)
PathTable(path, snaps) ==
    <<BodyLine("path", "", path, <<"Snapshots:", ToString(Len(snaps))>>)>>
        \o [i \in 1..Len(snaps) |-> BodyLine("row", "", path, TimeStr(snaps[i].Time))]

\* Lines 142-185: the snapshots of all snapshots results, grouped by their
\* paths; order is the order in which the range over the map gives the keys.
SnapshotsSection(allSnapshots, order) ==
    LET groupedByPath == GroupByPath(allSnapshots)
        paths == SortStrings(order)
    IN  IF allSnapshots = <<>> THEN <<>>
        ELSE <<BodyLine("snapshots", "", <<>>,
                        <<"Total snapshots:", ToString(Len(allSnapshots))>>)>>
             \o Flatten([i \in 1..Len(paths) |->
                             PathTable(paths[i], groupedByPath[paths[i]])])

\* generateBodyFromActions(actions, success): the overall status, then the
\* backups, the checks, the snapshots of all snapshots results together, and
\* the forgets; the bodies it can return, over the orders of the map.
generateBodyFromActions(actions, success) ==
    LET backups == OfType(actions, "backup")
        checks == OfType(actions, "check")
        forgets == OfType(actions, "forget")
        lists == OfType(actions, "snapshots")
        allSnapshots == Flatten([i \in 1..Len(lists) |-> lists[i].Summary.snapshots])
    IN  {<<BodyLine("status", "", <<>>, <<IF success THEN "SUCCESS" ELSE "FAILURE">>)>>
           \o Section("backup", [i \in 1..Len(backups) |-> BackupLines(backups[i])])
           \o Section("check", [i \in 1..Len(checks) |-> CheckLines(checks[i])])
           \o SnapshotsSection(allSnapshots, order)
           \o Section("forget", [i \in 1..Len(forgets) |-> ForgetLines(forgets[i])]) :
              order \in MapOrders({GroupKey(allSnapshots[i]) : i \in 1..Len(allSnapshots)})}

\* The attachments of lines 52-71: the output files of the failed actions.
Attachments(actions) ==
    LET failed == SelectSeq(actions, LAMBDA a : ~a.Success)
    IN  [i \in 1..Len(failed) |-> failed[i].OutFile]

\* shared.SendEmail: the message is handed to the SMTP server, which takes it
\* or not.
SendEmail ==
    {[mail |-> [mail EXCEPT !.dialed = mail.dialed + 1, !.delivered = ok],
      err |-> ~ok] : ok \in BOOLEAN}

\* NotifyEmailAction.Execute(args, dryRun).
NotifyEmail ==
    /\ command = "notify-email"
    /\ pc = "Execute"
    /\ pc' = "done"
    /\ IF args # 1
       THEN /\ result' = "usage"
            /\ UNCHANGED <<analysis, report, mail>>
       ELSE LET a == analyzeBackupResults(logDir)
                subject == IF a.overallSuccess THEN "Backup Report: SUCCESS"
                           ELSE "Backup Report: FAILURE"
            IN  /\ analysis' = a
                /\ IF a.err # "nil"
                   THEN /\ result' = a.err
                        /\ UNCHANGED <<report, mail>>
                   ELSE \E body \in generateBodyFromActions(a.actions, a.overallSuccess) :
                        IF dryRun
                        THEN /\ report' = [subject |-> subject, body |-> body,
                                           attachments |-> <<>>]
                             /\ mail' = [mail EXCEPT !.printed = TRUE]
                             /\ result' = "nil"
                        ELSE /\ report' = [subject |-> subject, body |-> body,
                                           attachments |-> Attachments(a.actions)]
                             /\ \E r \in SendEmail :
                                   /\ mail' = r.mail
                                   /\ result' = IF r.err THEN "failed to send email"
                                                ELSE "nil"
    /\ UNCHANGED <<wait, args, snapshotsOut, config, dryRun, snapshots, sizeViolations,
                   retentionViolations, failedChecks, command, logDir, http>>

\* "/fail" appended to the URL as it is.
NotifyURL_NoTrim(url, success) ==
    IF success THEN url ELSE url \o <<"/", "f", "a", "i", "l">>

\* The URL of lines 49-52: the configured one, or that one with "/fail".
NotifyURL(url, success) ==
    IF success THEN url
    ELSE (IF url # <<>> /\ url[Len(url)] = "/" THEN SubSeq(url, 1, Len(url) - 1)
          ELSE url) \o <<"/", "f", "a", "i", "l">>

\* What http.Get can come to: no answer, or an answer with a status.
Answers == {"error", "200", "500"}

\* NotifyHTTPAction.Execute(args).
NotifyHTTP ==
    /\ command = "notify-http"
    /\ pc = "Execute"
    /\ pc' = "done"
    /\ IF args # 1
       THEN /\ result' = "usage"
            /\ UNCHANGED <<analysis, http>>
       ELSE LET a == analyzeBackupResults(logDir)
            IN  /\ analysis' = a
                /\ IF a.err # "nil"
                   THEN /\ result' = a.err
                        /\ UNCHANGED http
                   ELSE \E answer \in Answers :
                           /\ http' = [http EXCEPT
                                  !.requested = Append(@, NotifyURL(http.url, a.overallSuccess)),
                                  !.answer = answer]
                           /\ result' = CASE answer = "error" -> "failed to perform HTTP GET request"
                                          [] answer = "200" -> "nil"
                                          [] OTHER -> "HTTP request failed with status code"
    /\ UNCHANGED <<wait, args, snapshotsOut, config, dryRun, snapshots, sizeViolations,
                   retentionViolations, failedChecks, mail, command, logDir, report>>

\* os.RemoveAll(logDir): the directory is gone, or the removal fails and
\* leaves the directory with some of its files.
RemoveAll(dir) ==
    {[dir |-> NoDir, err |-> FALSE]}
        \cup {[dir |-> Dir(left), err |-> TRUE] : left \in SUBSET dir.files}

\* The directory removed whatever the actions came to.
ShouldRemove_Always(a) ==
    TRUE

\* Line 51: the directory is removed when all the actions succeeded.
ShouldRemove(a) ==
    a.overallSuccess

\* CleanupAction.Execute(args).
Cleanup ==
    /\ command = "cleanup"
    /\ pc = "Execute"
    /\ pc' = "done"
    /\ IF args # 1
       THEN /\ result' = "usage"
            /\ UNCHANGED <<analysis, logDir>>
       ELSE IF ~logDir.exists
       THEN /\ result' = "log directory does not exist"
            /\ UNCHANGED <<analysis, logDir>>
       ELSE LET a == analyzeBackupResults(logDir)
            IN  /\ analysis' = a
                /\ IF a.err # "nil"
                   THEN /\ result' = "failed to analyze backup results"
                        /\ UNCHANGED logDir
                   ELSE IF ShouldRemove(a)
                   THEN \E r \in RemoveAll(logDir) :
                           /\ logDir' = r.dir
                           /\ result' = IF r.err THEN "failed to remove log directory"
                                        ELSE "nil"
                   ELSE /\ result' = "nil"
                        /\ UNCHANGED logDir
    /\ UNCHANGED <<wait, args, snapshotsOut, config, dryRun, snapshots, sizeViolations,
                   retentionViolations, failedChecks, mail, command, report, http>>

\* generateBodyFromActions applied to the results of an analysis.
Render ==
    /\ command = "render"
    /\ pc = "Execute"
    /\ pc' = "done"
    /\ \E body \in generateBodyFromActions(analysis.actions, analysis.overallSuccess) :
          report' = [subject |-> "", body |-> body, attachments |-> <<>>]
    /\ UNCHANGED <<args, snapshotsOut, config, dryRun, snapshots, sizeViolations,
                   retentionViolations, failedChecks, mail, result, command,
                   logDir, analysis, http, wait>>

\* Lines 48-58 of WaitOnlineAction.Execute: the arguments, startTime and
\* the first delay.
WaitStart ==
    /\ command = "wait-online"
    /\ pc = "Execute"
    /\ IF args # 0
       THEN /\ result' = "usage"
            /\ pc' = "done"
            /\ UNCHANGED wait
       ELSE /\ wait' = [wait EXCEPT !.now = 0, !.delay = wait.config.InitialDelay]
            /\ pc' = "Get"
            /\ UNCHANGED result
    /\ UNCHANGED <<args, snapshotsOut, config, dryRun, snapshots, sizeViolations,
                   retentionViolations, failedChecks, mail, command, logDir,
                   analysis, report, http>>

\* Lines 61-72: one request, which takes some time and gets an answer or
\* none; a 2xx answer returns nil, and otherwise the time since startTime
\* is compared with the timeout.
WaitGet ==
    /\ command = "wait-online"
    /\ pc = "Get"
    /\ \E took \in 0..MaxRequest, answer \in Answers :
          LET now == wait.now + took
          IN  IF answer = "200"
              THEN /\ wait' = [wait EXCEPT !.now = now, !.reachedAt = now]
                   /\ result' = "nil"
                   /\ pc' = "done"
              ELSE IF now >= wait.config.Timeout
              THEN /\ wait' = [wait EXCEPT !.now = now]
                   /\ result' = "timeout reached"
                   /\ pc' = "done"
              ELSE /\ wait' = [wait EXCEPT !.now = now]
                   /\ pc' = "Sleep"
                   /\ UNCHANGED result
    /\ UNCHANGED <<args, snapshotsOut, config, dryRun, snapshots, sizeViolations,
                   retentionViolations, failedChecks, mail, command, logDir,
                   analysis, report, http>>

\* Lines 78-81: the delay doubled, and MaxDelay when that is more.
NextDelay(delay, maxDelay) ==
    IF delay * 2 > maxDelay THEN maxDelay ELSE delay * 2

\* Lines 74-81: the sleep and the next delay.
WaitSleep ==
    /\ command = "wait-online"
    /\ pc = "Sleep"
    /\ wait' = [wait EXCEPT !.now = wait.now + wait.delay,
                            !.sleeps = Append(wait.sleeps, wait.delay),
                            !.delay = NextDelay(wait.delay, wait.config.MaxDelay)]
    /\ pc' = "Get"
    /\ UNCHANGED <<args, snapshotsOut, config, dryRun, snapshots, sizeViolations,
                   retentionViolations, failedChecks, mail, result, command,
                   logDir, analysis, report, http>>

----------------------------------------------------------------------------
(* Specifications.                                                         *)

\* The audit command on a log directory.
AuditSnapshots ==
    {Snapshot(t, <<PathA>>, z) : t \in {T1, T2}, z \in {1000, 1200}}

Init ==
    /\ args \in 0..MaxArgs
    /\ snapshotsOut \in {File("missing", <<>>), File("malformed", <<>>)}
          \cup {File("ok", q) : q \in SeqUpTo(AuditSnapshots, MaxAuditSnaps)}
    /\ config \in {Config(20, 5, k, e) :
                      k \in {NoKeep, <<0, 1, 0, 0, 0>>, <<1, 0, 0, 0, 0>>},
                      e \in BOOLEAN}
    /\ dryRun \in BOOLEAN
    /\ pc = "Execute"
    /\ snapshots = <<>>
    /\ Fresh
    /\ AuditRuns

Next ==
    \/ ReadSnapshots
    \/ CheckSizeChanges
    \/ CheckRetentionPolicy
    \/ SendAuditEmail
    \/ Report

Spec == Init /\ [][Next]_vars

\* checkSizeChanges called on a snapshot list, as the unit tests call it.
SizeSnapshots ==
    {Snapshot(t, p, z) : t \in {T1, T2, T3}, p \in PathLists,
                         z \in {0, 1000, 1290}}

SizeInit ==
    /\ args = 1
    /\ snapshots \in SeqUpTo(SizeSnapshots, MaxSizeSnaps)
    /\ snapshotsOut = File("ok", snapshots)
    /\ config \in {Config(20, 5, NoKeep, FALSE), Config(29, 25, NoKeep, FALSE)}
    /\ dryRun = FALSE
    /\ pc = "checkSizeChanges"
    /\ Fresh
    /\ AuditRuns

SpecSize == SizeInit /\ [][CheckSizeChanges]_vars

\* checkRetentionPolicy called on a snapshot list.  The instants: three of
\* Sunday 2024-12-29 (two of them within one hour), Monday 2024-12-30,
\* Wednesday 2025-01-01, Monday 2024-11-25, and a Time that does not parse.
R1 == Civil(2024, 12, 29, 10, 0)
R2 == Civil(2024, 12, 29, 10, 30)
R3 == Civil(2024, 12, 29, 11, 0)
R4 == Civil(2024, 12, 30, 10, 0)
R5 == Civil(2025, 1, 1, 10, 0)
R6 == Civil(2024, 11, 25, 10, 0)

RetentionSnapshots ==
    {Snapshot(t, p, 1000) : t \in {R1, R2, R3, R4, R5, R6, BadTime},
                            p \in PathLists}

RetentionKeeps ==
    {NoKeep, <<1, 1, 1, 1, 1>>, <<2, 2, 2, 2, 2>>, <<1, 0, 2, 0, 1>>,
     <<0, 2, 0, 1, 0>>, <<3, 1, 0, 0, 2>>}

RetentionInit ==
    /\ args = 1
    /\ snapshots \in SeqUpTo(RetentionSnapshots, MaxRetentionSnaps)
    /\ snapshotsOut = File("ok", snapshots)
    /\ config \in {Config(20, 5, k, FALSE) : k \in RetentionKeeps}
    /\ dryRun = FALSE
    /\ pc = "checkRetentionPolicy"
    /\ Fresh
    /\ AuditRuns

SpecRetention == RetentionInit /\ [][CheckRetentionPolicy]_vars

\* checkRetentionPolicy on the snapshots of one directory taken at 10:00 on
\* days of the three weeks from Monday 2024-12-23 to Sunday 2025-01-12.
WeeklyFirstDay == Civil(2024, 12, 23, 10, 0)
WeeklyDays == 21

WeeklySnapshots ==
    {Snapshot(AddDate(WeeklyFirstDay, n), <<PathA>>, 1000) :
        n \in 0..(WeeklyDays - 1)}

WeeklyInit ==
    /\ args = 1
    /\ snapshots \in SeqUpTo(WeeklySnapshots, MaxWeeklySnaps)
    /\ snapshotsOut = File("ok", snapshots)
    /\ config \in {Config(20, 5, <<0, 0, k, 0, 0>>, FALSE) : k \in {1, 2}}
    /\ dryRun = FALSE
    /\ pc = "checkRetentionPolicy"
    /\ Fresh
    /\ AuditRuns

SpecWeekly == WeeklyInit /\ [][CheckRetentionPolicy]_vars

\* Both checks, one after the other as Execute calls them, on a snapshot
\* list some of whose Times do not parse, with thresholds of 0 among the
\* configurations.
CheckSnapshots ==
    {Snapshot(t, p, z) : t \in {T1, T2, BadTime}, p \in PathLists,
                         z \in {1000, 1200}}

CheckConfigs ==
    {Config(th[1], th[2], k, FALSE) :
        th \in {<<20, 5>>, <<20, 0>>, <<0, 5>>},
        k \in {NoKeep, <<1, 1, 1, 1, 1>>}}

ChecksInit ==
    /\ args = 1
    /\ snapshots \in SeqUpTo(CheckSnapshots, MaxCheckSnaps)
    /\ snapshotsOut = File("ok", snapshots)
    /\ config \in CheckConfigs
    /\ dryRun = FALSE
    /\ pc = "checkSizeChanges"
    /\ Fresh
    /\ AuditRuns

ChecksNext ==
    \/ CheckSizeChanges
    \/ CheckRetentionPolicy

SpecChecks == ChecksInit /\ [][ChecksNext]_vars

\* Both checks on lists long enough for two PathGroups of two snapshots.
OrderSnapshots ==
    {Snapshot(t, p, z) : t \in {T1, T2}, p \in PathLists, z \in {1000, 1200}}

OrderInit ==
    /\ args = 1
    /\ snapshots \in SeqUpTo(OrderSnapshots, MaxOrderSnaps)
    /\ snapshotsOut = File("ok", snapshots)
    /\ config \in {Config(20, 5, k, FALSE) : k \in {NoKeep, <<1, 1, 1, 1, 1>>}}
    /\ dryRun = FALSE
    /\ pc = "checkSizeChanges"
    /\ Fresh
    /\ AuditRuns

SpecOrder == OrderInit /\ [][ChecksNext]_vars

\* notify-email, notify-http and cleanup on a log directory of up to
\* MaxFiles exit-code files.  The files: a backup, the check, the forget, the
\* snapshots and one of no known kind; each written at one of two times, with
\* an exit code of 0, of 1 or not a number, and with or without an output.
BaseNames ==
    {BackupPrefix \o <<"a">>, CheckBase, ForgetBase, SnapshotsBase,
     <<"p", "r", "u", "n", "e">>}

ExitCodes ==
    {<<"0", "\n">>, <<"1">>, <<"x">>}

SomeGroups ==
    <<Group(<<Snapshot(T1, <<PathA>>, 1000)>>, <<"s1">>, <<"r1">>),
      Group(<<>>, <<>>, <<"r2", "r3">>)>>

Outputs ==
    {[present |-> FALSE, content |-> <<>>]}
        \cup {[present |-> TRUE, content |-> c] :
                 c \in {<<ObjectLine(1, 0)>>,
                        <<ArrayLine(SomeGroups), BlankLine>>,
                        <<TextLine, ArrayLine(SomeGroups)>>,
                        <<BadArrayLine>>}}

\* What a file holds besides its name.
FileStates ==
    [mtime : 1..MaxMtime, exitcode : ExitCodes, out : Outputs]

LogFile(base, state) ==
    [base |-> base, mtime |-> state.mtime, exitcode |-> state.exitcode,
     out |-> state.out]

\* The directories: up to MaxFiles files, no two of one name.
LogDirs ==
    {NoDir} \cup
    UNION {{Dir({LogFile(b, f[b]) : b \in names}) : f \in [names -> FileStates]} :
              names \in {n \in SUBSET BaseNames : Cardinality(n) <= MaxFiles}}

LogInit ==
    /\ command \in {"notify-email", "notify-http", "cleanup"}
    /\ logDir \in LogDirs
    /\ args \in 0..MaxArgs
    /\ args # 1 => logDir = NoDir
    /\ dryRun \in BOOLEAN
    /\ dryRun => command = "notify-email"
    /\ http = HTTP(<<"u">>)
    /\ snapshotsOut = File("missing", <<>>)
    /\ config = Config(20, 5, NoKeep, TRUE)
    /\ pc = "Execute"
    /\ snapshots = <<>>
    /\ Fresh

LogNext ==
    \/ NotifyEmail
    \/ NotifyHTTP
    \/ Cleanup

SpecLog == LogInit /\ [][LogNext]_vars

\* notify-http alone, over the URLs of its configuration: without a trailing
\* slash, with one and with two.
URLs ==
    {<<"u">>, <<"u", "/">>, <<"u", "/", "/">>}

\* The directories of at most one artifact.
SmallDirs ==
    {NoDir, Dir({})} \cup {Dir({LogFile(b, st)}) : b \in BaseNames, st \in FileStates}

HTTPInit ==
    /\ command = "notify-http"
    /\ logDir \in SmallDirs
    /\ args \in 0..MaxArgs
    /\ args # 1 => logDir = NoDir
    /\ dryRun = FALSE
    /\ http \in {HTTP(url) : url \in URLs}
    /\ snapshotsOut = File("missing", <<>>)
    /\ config = Config(20, 5, NoKeep, TRUE)
    /\ pc = "Execute"
    /\ snapshots = <<>>
    /\ Fresh

SpecHTTP == HTTPInit /\ [][NotifyHTTP]_vars

\* wait-online, over flags given in seconds; a delay of 0 is a flag left at
\* zero, which ValidateWaitOnlineConfig replaces with the default.
WaitTimeouts == {3, 6}
WaitInitialDelays == {0, 1, 3}
WaitMaxDelays == {0, 2, 4}

WaitInit ==
    /\ command = "wait-online"
    /\ args \in 0..MaxArgs
    /\ \E t \in WaitTimeouts, i \in WaitInitialDelays, m \in WaitMaxDelays :
          wait = Wait(ValidateWaitOnlineConfig(WaitOnlineConfig(t, i, m)))
    /\ dryRun = FALSE
    /\ logDir = Dir({})
    /\ http = HTTP(<<>>)
    /\ snapshotsOut = File("missing", <<>>)
    /\ config = Config(20, 5, NoKeep, FALSE)
    /\ pc = "Execute"
    /\ snapshots = <<>>
    /\ sizeViolations = <<>>
    /\ retentionViolations = <<>>
    /\ failedChecks = <<>>
    /\ mail = NoMail
    /\ result = "none"
    /\ analysis = NoAnalysis
    /\ report = NoReport

WaitNext ==
    \/ WaitStart
    \/ WaitGet
    \/ WaitSleep

SpecWait == WaitInit /\ [][WaitNext]_vars

\* generateBodyFromActions called on one snapshots result: up to
\* MaxReportSnaps snapshots of three path lists at three instants.
ReportSnapshots ==
    {Snapshot(t, p, 1000) : t \in {T1, T2, T3}, p \in {<<PathA>>, <<PathB>>, <<PathA, PathB>>}}

ReportInit ==
    /\ command = "render"
    /\ \E list \in SeqUpTo(ReportSnapshots, MaxReportSnaps) :
          analysis = Analysis(<<ActionResult("snapshots", SnapshotsBase, TRUE,
                                             [NoSummary EXCEPT !.snapshots = list],
                                             [base |-> SnapshotsBase])>>,
                              TRUE, "nil")
    /\ args = 1
    /\ dryRun = FALSE
    /\ logDir = Dir({})
    /\ http = HTTP(<<>>)
    /\ snapshotsOut = File("missing", <<>>)
    /\ config = Config(20, 5, NoKeep, FALSE)
    /\ pc = "Execute"
    /\ snapshots = <<>>
    /\ sizeViolations = <<>>
    /\ retentionViolations = <<>>
    /\ failedChecks = <<>>
    /\ mail = NoMail
    /\ result = "none"
    /\ report = NoReport
    /\ wait = NoWait

SpecReport == ReportInit /\ [][Render]_vars

\* notify-email --dry-run on a directory with one backup artifact, over the
\* outputs of up to MaxLines lines: blank lines, text, broken and whole
\* arrays, and objects with a files_new of 1 or of 2.
BackupOutputLines ==
    {BlankLine, TextLine, BadArrayLine, ArrayLine(<<>>), ObjectLine(1, 0),
     ObjectLine(2, 0)}

BackupInit ==
    /\ command = "notify-email"
    /\ dryRun = TRUE
    /\ args = 1
    /\ \E content \in SeqUpTo(BackupOutputLines, MaxLines), code \in {<<"0">>, <<"1">>} :
          logDir = Dir({[base |-> BackupPrefix \o <<"a">>, mtime |-> 1,
                         exitcode |-> code,
                         out |-> [present |-> TRUE, content |-> content]]})
    /\ http = HTTP(<<>>)
    /\ snapshotsOut = File("missing", <<>>)
    /\ config = Config(20, 5, NoKeep, TRUE)
    /\ pc = "Execute"
    /\ snapshots = <<>>
    /\ Fresh

SpecBackup == BackupInit /\ [][NotifyEmail]_vars

----------------------------------------------------------------------------
(* The vocabulary of the properties.                                       *)

\* checkSizeChanges has returned.
SizeChecked ==
    pc \in {"checkRetentionPolicy", "sendAuditEmail", "report"}
        \/ (pc = "done" /\ result \notin {"usage", "failed to read snapshots"})

\* The PathGroup of snapshot i: the comma-joined list of its paths.
PathGroupOf(i) ==
    Join(snapshots[i].Paths, <<",", " ">>)

PathGroups ==
    {PathGroupOf(i) : i \in 1..Len(snapshots)}

\* The snapshots of a PathGroup, by their position in the input.
Members(key) ==
    {i \in 1..Len(snapshots) : PathGroupOf(i) = key}

\* The instant of snapshot i; the zero Time when its Time does not parse.
InstantOf(i) ==
    IF snapshots[i].Time.ok THEN snapshots[i].Time ELSE Civil(1, 1, 1, 0, 0)

Earlier(i, j) ==
    Before(InstantOf(i), InstantOf(j))

\* <<i, j>>: j is a snapshot of the group with the latest timestamp and i one
\* with the latest timestamp among the others.
LatestPairs(key) ==
    {pr \in Members(key) \X Members(key) :
        /\ pr[1] # pr[2]
        /\ \A k \in Members(key) : ~Earlier(pr[2], k)
        /\ \A k \in Members(key) \ {pr[2]} : ~Earlier(pr[1], k)}

\* The timestamps name one latest and one second latest snapshot.
UniqueLatestPair(key) ==
    Cardinality(LatestPairs(key)) = 1

SizeViolationsOf(key) ==
    SelectSeq(sizeViolations, LAMBDA v : v.Path = key)

\* What comparing snapshot pr[1] (previous) with pr[2] (current) yields.
VerdictOf(key, pr, cfg) ==
    CompareLatest(key, <<snapshots[pr[1]], snapshots[pr[2]]>>, cfg)

----------------------------------------------------------------------------
(* C1 *)

\* C1, as claimed: for every PathGroup the violations emitted are those of
\* comparing the snapshot with the second latest timestamp (previous) with the
\* one with the latest timestamp (current), whatever the order of the input.
C1_LatestPairWhateverOrder ==
    SizeChecked =>
        \A key \in PathGroups : \A pr \in LatestPairs(key) :
            SizeViolationsOf(key) = VerdictOf(key, pr, config)

\* C1, amended: the same, for every PathGroup whose timestamps name one latest
\* and one second latest snapshot; no earlier transition of the group's history
\* changes what is emitted.
C1_LatestPairOnly ==
    SizeChecked =>
        \A key \in PathGroups : UniqueLatestPair(key) =>
            \A pr \in LatestPairs(key) :
                SizeViolationsOf(key) = VerdictOf(key, pr, config)

\* A group of three snapshots given out of time order whose earlier transition
\* exceeds its threshold while the latest pair does not: nothing is emitted.
C1_Witness ==
    /\ SizeChecked
    /\ \E key \in PathGroups :
          /\ Cardinality(Members(key)) = 3
          /\ UniqueLatestPair(key)
          /\ \E i, j \in Members(key) : i < j /\ Earlier(j, i)
          /\ \E pr \in LatestPairs(key) : \E k \in Members(key) \ {pr[1], pr[2]} :
                /\ VerdictOf(key, <<k, pr[1]>>, config) # <<>>
                /\ VerdictOf(key, pr, config) = <<>>
          /\ SizeViolationsOf(key) = <<>>

----------------------------------------------------------------------------
(* C2 *)

\* The threshold that applies to a pair: grow when the size went up, shrink
\* otherwise.
ThresholdFor(prev, curr, cfg) ==
    IF curr.Size > prev.Size THEN cfg.GrowThreshold ELSE cfg.ShrinkThreshold

\* |curr - prev| / prev * 100 >= threshold, in exact arithmetic.
ExactlyAtLeast(prev, curr, threshold) ==
    LET d == curr.Size - prev.Size
    IN  (IF d < 0 THEN 0 - d ELSE d) * 100 >= threshold * prev.Size

\* C2, as claimed: for the compared pair a violation is emitted if and only if
\* the magnitude of the percentage change is greater than or equal to the
\* applicable threshold, a change exactly equal to the threshold included.
C2_InclusiveBoundary ==
    SizeChecked =>
        \A key \in PathGroups : UniqueLatestPair(key) =>
            \A pr \in LatestPairs(key) :
                LET prev == snapshots[pr[1]]
                    curr == snapshots[pr[2]]
                IN  prev.Size # 0 =>
                        ((SizeViolationsOf(key) # <<>>) <=>
                            ExactlyAtLeast(prev, curr, ThresholdFor(prev, curr, config)))

----------------------------------------------------------------------------
(* C3 *)

\* Thresholds other than the configured ones.
OtherThresholds == {0, 5, 20, 25, 29, 100}

\* C3: when the current size is larger than the previous one the verdict is
\* that of the grow-threshold alone and a violation is labeled size_growth;
\* when it is smaller the verdict is that of the shrink-threshold alone, on the
\* absolute change, and a violation is labeled size_shrink.  Every violation
\* emitted carries the label and the threshold of its own direction.
C3_Directional ==
    SizeChecked =>
        /\ \A key \in PathGroups : UniqueLatestPair(key) =>
              \A pr \in LatestPairs(key) :
                  LET prev == snapshots[pr[1]]
                      curr == snapshots[pr[2]]
                      emitted == SizeViolationsOf(key)
                      pct == ChangePercent(prev, curr).abs
                  IN  /\ (prev.Size # 0 /\ curr.Size > prev.Size) =>
                            /\ (emitted # <<>>) <=>
                                   Float64GE(pct, Float64FromInt(config.GrowThreshold))
                            /\ \A h \in OtherThresholds :
                                   VerdictOf(key, pr, [config EXCEPT !.ShrinkThreshold = h]) = emitted
                      /\ (prev.Size # 0 /\ curr.Size < prev.Size) =>
                            /\ (emitted # <<>>) <=>
                                   Float64GE(pct, Float64FromInt(config.ShrinkThreshold))
                            /\ \A g \in OtherThresholds :
                                   VerdictOf(key, pr, [config EXCEPT !.GrowThreshold = g]) = emitted
        /\ \A n \in 1..Len(sizeViolations) :
              LET v == sizeViolations[n]
              IN  /\ v.current_size > v.previous_size =>
                        v.CheckType = "size_growth" /\ v.threshold = config.GrowThreshold
                  /\ v.current_size < v.previous_size =>
                        v.CheckType = "size_shrink" /\ v.threshold = config.ShrinkThreshold

\* A shrink of 22.5% that a shrink-threshold of 25 lets pass and one of 20
\* would report.
C3_Witness ==
    /\ SizeChecked
    /\ config.ShrinkThreshold = 25
    /\ \E key \in PathGroups : \E pr \in LatestPairs(key) :
          /\ UniqueLatestPair(key)
          /\ snapshots[pr[1]].Size = 1290 /\ snapshots[pr[2]].Size = 1000
          /\ SizeViolationsOf(key) = <<>>
          /\ VerdictOf(key, pr, [config EXCEPT !.ShrinkThreshold = 20]) # <<>>

----------------------------------------------------------------------------
(* C4 *)

\* C4: a PathGroup with fewer than 2 snapshots gets no violation: every
\* violation emitted names a PathGroup of at least 2 snapshots.
C4_FewerThanTwo ==
    SizeChecked =>
        /\ \A key \in PathGroups :
              Cardinality(Members(key)) < 2 => SizeViolationsOf(key) = <<>>
        /\ \A n \in 1..Len(sizeViolations) :
              Cardinality(Members(sizeViolations[n].Path)) >= 2

\* A group of one snapshot, the most recent of all, beside a group of two that
\* is reported.
C4_Witness ==
    /\ SizeChecked
    /\ Len(sizeViolations) = 1
    /\ \E key \in PathGroups :
          /\ Cardinality(Members(key)) = 1
          /\ \E i \in Members(key) :
                /\ snapshots[i].Size = 1290
                /\ \A j \in 1..Len(snapshots) : j # i => Earlier(j, i)

----------------------------------------------------------------------------
(* C5 *)

\* C5: a PathGroup whose second most recent snapshot has totalBytesProcessed
\* = 0 gets no violation, whatever the current size and the thresholds.
C5_ZeroPrevious ==
    SizeChecked =>
        \A key \in PathGroups :
            (/\ LatestPairs(key) # {}
             /\ \A pr \in LatestPairs(key) : snapshots[pr[1]].Size = 0)
                => SizeViolationsOf(key) = <<>>

\* A group whose second most recent snapshot is empty and whose most recent
\* one is not.
C5_Witness ==
    /\ SizeChecked
    /\ \E key \in PathGroups : \E pr \in LatestPairs(key) :
          /\ UniqueLatestPair(key)
          /\ snapshots[pr[1]].Size = 0
          /\ snapshots[pr[2]].Size = 1290
          /\ SizeViolationsOf(key) = <<>>

----------------------------------------------------------------------------
(* C6 *)

\* checkRetentionPolicy has returned.
RetentionChecked ==
    pc \in {"sendAuditEmail", "report"}
        \/ (pc = "done" /\ result \notin {"usage", "failed to read snapshots"})

Granularities == {"hourly", "daily", "weekly", "monthly", "yearly"}

KeepOf(cfg, g) ==
    CASE g = "hourly" -> cfg.KeepHourly
      [] g = "daily" -> cfg.KeepDaily
      [] g = "weekly" -> cfg.KeepWeekly
      [] g = "monthly" -> cfg.KeepMonthly
      [] g = "yearly" -> cfg.KeepYearly

\* The calendar bucket of an instant: its hour, its day, its week counted from
\* a Monday, its month, its year.
CalendarBucket(g, t) ==
    CASE g = "hourly" -> <<AbsDays(t), t.h>>
      [] g = "daily" -> <<AbsDays(t)>>
      [] g = "weekly" -> <<AbsDays(t) \div 7>>
      [] g = "monthly" -> <<t.y, t.mo>>
      [] g = "yearly" -> <<t.y>>

\* The snapshots of a PathGroup that have a timestamp.
Dated(key) ==
    {i \in Members(key) : snapshots[i].Time.ok}

\* The number of buckets of granularity g the snapshots of a PathGroup occupy.
Occupied(key, g) ==
    Cardinality({CalendarBucket(g, snapshots[i].Time) : i \in Dated(key)})

RetentionViolationsOf(key) ==
    SelectSeq(retentionViolations, LAMBDA v : v.Path = key)

RetentionViolationsFor(key, g) ==
    SelectSeq(retentionViolations,
              LAMBDA v : v.Path = key /\ v.CheckType = RetentionType(g))

----------------------------------------------------------------------------
(* C7 *)

\* C7: a keep count of 0 disables the granularity: no violation of that
\* granularity is emitted, however many buckets the snapshots occupy.
C7_KeepZeroDisables ==
    RetentionChecked =>
        \A g \in Granularities :
            KeepOf(config, g) = 0 =>
                \A n \in 1..Len(retentionViolations) :
                    retentionViolations[n].CheckType # RetentionType(g)

\* Snapshots of three days under a keep-daily of 0 and a keep-hourly of 1: an
\* hourly violation is emitted and no daily one.
C7_Witness ==
    /\ RetentionChecked
    /\ config.KeepDaily = 0
    /\ config.KeepHourly = 1
    /\ \E key \in PathGroups :
          /\ Occupied(key, "daily") = 3
          /\ RetentionViolationsFor(key, "hourly") # <<>>
          /\ RetentionViolationsFor(key, "daily") = <<>>

----------------------------------------------------------------------------
(* C8 *)

\* m is the Monday on or before t: days are counted from a Monday.
MondayOnOrBefore(m, t) ==
    /\ AbsDays(m) % 7 = 0
    /\ AbsDays(m) <= AbsDays(t)
    /\ AbsDays(t) - AbsDays(m) <= 6
    /\ m.d \in 1..DaysIn(m.y, m.mo)
    /\ m.mo \in 1..12

\* C8: the weekly bucket of a snapshot is identified by the date of the Monday
\* on or before its timestamp; the weekly violation counts the distinct such
\* weeks; three snapshots exactly 7 days apart occupy three weekly buckets.
C8_WeeklyBuckets ==
    RetentionChecked =>
        /\ \A i \in 1..Len(snapshots) :
              LET t == snapshots[i].Time
                  m == WeekStart(t)
              IN  t.ok => /\ MondayOnOrBefore(m, t)
                          /\ WeeklyKey(t) = <<m.y, m.mo, m.d>>
        /\ \A key \in PathGroups :
              LET emitted == RetentionViolationsFor(key, "weekly")
              IN  /\ (emitted # <<>>) <=>
                        (config.KeepWeekly # 0 /\ Occupied(key, "weekly") > config.KeepWeekly)
                  /\ emitted # <<>> => emitted[1].actual = Occupied(key, "weekly")
                  /\ \A i, j \in Dated(key) :
                        (WeeklyKey(snapshots[i].Time) = WeeklyKey(snapshots[j].Time))
                            <=> (AbsDays(snapshots[i].Time) \div 7
                                    = AbsDays(snapshots[j].Time) \div 7)
                  /\ \A i, j, k \in Dated(key) :
                        (/\ AbsDays(snapshots[j].Time) = AbsDays(snapshots[i].Time) + 7
                         /\ AbsDays(snapshots[k].Time) = AbsDays(snapshots[j].Time) + 7)
                            => /\ Cardinality({WeeklyKey(snapshots[n].Time) : n \in {i, j, k}}) = 3
                               /\ config.KeepWeekly \in 1..2 =>
                                     (emitted # <<>> /\ emitted[1].actual >= 3)

\* Three snapshots taken on Sundays 7 days apart, across the turn of the year,
\* reported as 3 weekly buckets.
C8_Witness ==
    /\ RetentionChecked
    /\ Len(snapshots) = 3
    /\ Weekday(snapshots[1].Time) = Sunday
    /\ snapshots[1].Time.y < snapshots[3].Time.y
    /\ AbsDays(snapshots[2].Time) = AbsDays(snapshots[1].Time) + 7
    /\ AbsDays(snapshots[3].Time) = AbsDays(snapshots[2].Time) + 7
    /\ Len(retentionViolations) = 1
    /\ retentionViolations[1].CheckType = "retention_weekly"
    /\ retentionViolations[1].actual = 3

----------------------------------------------------------------------------
(* C9 *)

\* Execute has returned.
Returned ==
    pc = "done"

\* The violations of both checks on the snapshots that were read.
Violated ==
    sizeViolations # <<>> \/ retentionViolations # <<>>

\* snapshots.out is missing or malformed: Execute returns the read error and
\* no check has run.
StructuralError ==
    (Returned /\ args = 1 /\ snapshotsOut.state # "ok") =>
        /\ result = "failed to read snapshots"
        /\ sizeViolations = <<>> /\ retentionViolations = <<>>
        /\ failedChecks = <<>> /\ mail = NoMail

\* C9, as claimed: called with one argument on a readable snapshots.out,
\* Execute returns 'audit checks failed' if and only if the violation list is
\* non-empty and nil otherwise; a missing or malformed snapshots.out gives a
\* distinct error before any check.
C9_VerdictIffViolations ==
    /\ StructuralError
    /\ (Returned /\ args = 1 /\ snapshotsOut.state = "ok") =>
          /\ result \in {"audit checks failed", "nil"}
          /\ result = "audit checks failed" <=> Violated

\* C9, amended: the same, unless sending the e-mail fails; then Execute
\* returns the error of the send, and the violation list is non-empty.
C9_VerdictUnlessSendFails ==
    /\ StructuralError
    /\ (Returned /\ args = 1 /\ snapshotsOut.state = "ok") =>
          /\ failedChecks = sizeViolations \o retentionViolations
          /\ IF mail.dialed > 0 /\ ~mail.delivered
             THEN result = "failed to send audit email" /\ Violated
             ELSE /\ result \in {"audit checks failed", "nil"}
                  /\ result = "audit checks failed" <=> Violated

\* A run whose only violation is one of retention returns 'audit checks
\* failed' after the e-mail was delivered.
C9_Witness ==
    /\ Returned
    /\ sizeViolations = <<>>
    /\ retentionViolations # <<>>
    /\ mail.delivered
    /\ result = "audit checks failed"

----------------------------------------------------------------------------
(* C10 *)

\* C10: an e-mail is attempted only when at least one check failed and the
\* e-mail configuration is present; with --dry-run the body is printed and no
\* SMTP connection is made; without it nothing is printed and the connection
\* is made once.
C10_NotifyOnlyOnFailure ==
    /\ (mail.dialed > 0 \/ mail.printed) =>
          failedChecks # <<>> /\ config.NotifyEmailConfig
    /\ dryRun => mail.dialed = 0 /\ ~mail.delivered
    /\ mail.printed => dryRun
    /\ mail.dialed \in 0..1
    /\ (pc \in {"report", "done"} /\ args = 1 /\ snapshotsOut.state = "ok"
            /\ failedChecks # <<>> /\ config.NotifyEmailConfig) =>
          IF dryRun THEN mail.printed ELSE mail.dialed = 1

\* A run with a violation under --dry-run and an e-mail configuration: the
\* body was printed and no connection made.
C10_Witness ==
    /\ pc = "done"
    /\ dryRun
    /\ config.NotifyEmailConfig
    /\ failedChecks # <<>>
    /\ mail.printed
    /\ mail.dialed = 0

----------------------------------------------------------------------------
(* The vocabulary of the properties of the log directory analysis.         *)

\* The command has called analyzeBackupResults and has returned.
Analyzed ==
    pc = "done" /\ command # "audit" /\ analysis # NoAnalysis

\* The analysis returned a result list.
AnalysisOK ==
    Analyzed /\ analysis.err = "nil"

\* The directory is the one that was analyzed: cleanup has not touched it.
DirAsAnalyzed ==
    Analyzed /\ (command = "cleanup" => result \in {"nil", "failed to analyze backup results"}
                                        /\ logDir.exists)

\* The files of the directory whose name is of a known kind.
KnownFiles ==
    {f \in logDir.files : f.base = ForgetBase \/ f.base = CheckBase
                            \/ f.base = SnapshotsBase \/ HasPrefix(f.base, BackupPrefix)}

\* The exit-code file holds 0.
ExitZero(f) ==
    f.exitcode \in {<<"0">>, <<"0", "\n">>}

\* The file a result was made from.
FileOf(a) ==
    CHOOSE f \in logDir.files : f.base = a.OutFile

\* The results made from a file.
ResultsOf(f) ==
    SelectSeq(analysis.actions, LAMBDA a : a.OutFile = f.base)

----------------------------------------------------------------------------
(* C11 *)

\* The lines of the report that are about one action, in their order.
ActionLines ==
    SelectSeq(report.body,
              LAMBDA line : /\ line.section \in {"backup", "check", "snapshots", "forget"}
                            /\ line.text # <<"heading">>)

\* C11, as claimed: the analysis yields the results in ascending order of the
\* modification time of their artifacts, and the report has one section per
\* action in that order.
C11_ChronologicalOrder ==
    (AnalysisOK /\ DirAsAnalyzed) =>
        /\ \A i, j \in 1..Len(analysis.actions) :
              i < j => FileOf(analysis.actions[i]).mtime
                          <= FileOf(analysis.actions[j]).mtime
        /\ (command = "notify-email" /\ report # NoReport) =>
              /\ Len(ActionLines) = Len(analysis.actions)
              /\ \A i \in 1..Len(ActionLines) :
                    ActionLines[i].section = analysis.actions[i].Type

----------------------------------------------------------------------------
(* C12 *)

\* C12: the overall status is SUCCESS if and only if every result of the
\* list has success, and a result has success exactly when the exit code of
\* its artifact is 0; notify-email reports that status in its subject.
C12_OverallStatus ==
    AnalysisOK =>
        /\ analysis.overallSuccess <=>
              \A i \in 1..Len(analysis.actions) : analysis.actions[i].Success
        /\ DirAsAnalyzed =>
              /\ \A i \in 1..Len(analysis.actions) :
                    analysis.actions[i].Success <=> ExitZero(FileOf(analysis.actions[i]))
              /\ analysis.overallSuccess <=> \A f \in KnownFiles : ExitZero(f)
        /\ (command = "notify-email" /\ report # NoReport) =>
              report.subject = IF \A i \in 1..Len(analysis.actions) :
                                       analysis.actions[i].Success
                               THEN "Backup Report: SUCCESS"
                               ELSE "Backup Report: FAILURE"

\* A backup that succeeded and a forget that failed: the status is FAILURE.
C12_Witness ==
    /\ AnalysisOK
    /\ Len(analysis.actions) = 2
    /\ analysis.actions[1].Type = "backup" /\ analysis.actions[1].Success
    /\ analysis.actions[2].Type = "forget" /\ ~analysis.actions[2].Success
    /\ ~analysis.overallSuccess
    /\ report.subject = "Backup Report: FAILURE"

----------------------------------------------------------------------------
(* C13 *)

\* The summary the parser of its kind makes of the output of a file.
SummaryOf(f) ==
    CASE HasPrefix(f.base, BackupPrefix) -> ParseBackupOutput(f.out.content, FALSE).summary
      [] f.base = CheckBase -> ParseCheckOutput(f.out.content, FALSE).summary
      [] f.base = SnapshotsBase -> ParseSnapshotsOutput(f.out.content).summary
      [] OTHER -> NoSummary

----------------------------------------------------------------------------
(* C14 *)

\* C14: when an exit-code file of the directory has no sibling output file,
\* the analysis returns an error and no result list, and the command returns
\* that error.
C14_MissingOutputFails ==
    (Analyzed /\ DirAsAnalyzed /\ \E f \in logDir.files : ~f.out.present) =>
        /\ analysis.err # "nil"
        /\ analysis.actions = <<>>
        /\ ~analysis.overallSuccess
        /\ result \notin {"nil", "none"}

\* The first file is in order and the second has no output: the analysis
\* fails on reading it.
C14_Witness ==
    /\ Analyzed
    /\ analysis.err = "failed to read output file"
    /\ \E f, g \in logDir.files :
          /\ StrLess(f.base, g.base)
          /\ f.out.present /\ ExitZero(f) /\ f.base = CheckBase
          /\ f.out.content = <<ObjectLine(1, 0)>>
          /\ ~g.out.present /\ ExitZero(g)

----------------------------------------------------------------------------
(* C15 *)

\* The output of a file does not parse with the parser of its kind.
Unparsable(f) ==
    CASE HasPrefix(f.base, BackupPrefix) -> ParseBackupOutput(f.out.content, ExitZero(f)).err
      [] f.base = CheckBase -> ParseCheckOutput(f.out.content, ExitZero(f)).err
      [] f.base = SnapshotsBase -> ParseSnapshotsOutput(f.out.content).err
      [] f.base = ForgetBase -> ParseForgetOutput(f.out.content).err
      [] OTHER -> FALSE

\* A command is about to run on a directory that is there.
Runs ==
    /\ pc = "Execute"
    /\ command \in {"notify-email", "notify-http", "cleanup"}
    /\ args = 1
    /\ logDir.exists

\* C15, as claimed: the analysis is fail-fast.  When the exit code of an
\* artifact is not an integer, or its output does not parse for its kind, the
\* analysis returns an error with no list and status false, and the command
\* returns an error, having sent no mail, made no request and removed nothing.
C15_FailFast ==
    [][(Runs /\ \E f \in logDir.files :
                    \/ readExitCode(f.exitcode).err
                    \/ f.out.present /\ Unparsable(f))
          => /\ analysis'.err # "nil"
             /\ analysis'.actions = <<>>
             /\ ~analysis'.overallSuccess
             /\ result' # "nil"
             /\ UNCHANGED <<mail, report, http, logDir>>]_vars

----------------------------------------------------------------------------
(* C16 *)

\* The files of the directory whose name is of no known kind.
UnknownFiles ==
    logDir.files \ KnownFiles

\* C16, as claimed: a file of unknown kind changes nothing, whatever its exit
\* code holds and whether or not it has an output: the analysis is that of the
\* directory without it.
C16_UnknownNeverMatters ==
    (Analyzed /\ DirAsAnalyzed) =>
        analysis = analyzeBackupResults(Dir(KnownFiles))

\* C16, amended: a file of unknown kind has no result in the list; when its
\* exit code is an integer and its output file is there, the analysis is that
\* of the directory without it, and otherwise the analysis fails.
C16_UnknownSkippedWhenReadable ==
    (Analyzed /\ DirAsAnalyzed) =>
        /\ \A i \in 1..Len(analysis.actions) :
              FileOf(analysis.actions[i]) \in KnownFiles
        /\ IF \A u \in UnknownFiles : ~readExitCode(u.exitcode).err /\ u.out.present
           THEN analysis = analyzeBackupResults(Dir(KnownFiles))
           ELSE /\ analysis.err # "nil"
                /\ analysis.actions = <<>>

\* A file of unknown kind with exit code 1 and an output no parser would
\* take, next to a backup that succeeded: one result, and SUCCESS.
C16_Witness ==
    /\ AnalysisOK
    /\ \E u \in UnknownFiles :
          /\ u.exitcode = <<"1">>
          /\ u.out.present
          /\ u.out.content = <<BadArrayLine>>
    /\ Len(analysis.actions) = 1
    /\ analysis.actions[1].Type = "backup"
    /\ analysis.overallSuccess

----------------------------------------------------------------------------
(* C17 *)

\* C17, as claimed: notify-email and notify-http on a log directory that does
\* not exist return an error, and never an empty list with SUCCESS.
C17_MissingDirectoryFails ==
    (pc = "done" /\ args = 1 /\ command \in {"notify-email", "notify-http"}
        /\ ~logDir.exists) =>
        /\ analysis.err # "nil"
        /\ ~(analysis.actions = <<>> /\ analysis.overallSuccess)
        /\ result # "nil"
        /\ http.requested = <<>>
        /\ report = NoReport

----------------------------------------------------------------------------
(* C18 *)

\* The output holds no line that starts an array, or the first such line is
\* not valid JSON.
BadForgetOutput(content) ==
    LET starts == {i \in 1..Len(content) : content[i].kind \in {"array", "badarray"}}
    IN  \/ starts = {}
        \/ \E i \in starts : /\ content[i].kind = "badarray"
                             /\ \A j \in starts : i <= j

\* C18, as claimed: a forget artifact with such an output is a FormatError:
\* the parser returns an error and the analysis fails.
C18_BadForgetOutputFails ==
    (Analyzed /\ DirAsAnalyzed) =>
        \A f \in logDir.files :
            (f.base = ForgetBase /\ f.out.present /\ BadForgetOutput(f.out.content)) =>
                /\ ParseForgetOutput(f.out.content).err
                /\ analysis.err # "nil"
                /\ analysis.actions = <<>>

----------------------------------------------------------------------------
(* C19 *)

\* The sum of the lengths of the remove arrays of the groups of a forget
\* output.
RemovedIn(content) ==
    LET starts == SelectSeq(content, LAMBDA line : line.kind = "array")
        lens == [i \in 1..Len(starts[1].groups) |-> starts[1].groups[i].remove]
    IN  IF starts = <<>> THEN 0 ELSE Len(Flatten(lens))

\* C19, as claimed: the result of a forget artifact carries the number of
\* snapshots removed, the sum of the lengths of the remove arrays, and the
\* report shows it as "N snapshots removed", or says that none was removed.
C19_RemovedCount ==
    (AnalysisOK /\ DirAsAnalyzed) =>
        \A f \in logDir.files :
            (f.base = ForgetBase /\ ~BadForgetOutput(f.out.content)) =>
                /\ Len(ResultsOf(f)) = 1
                /\ ResultsOf(f)[1].Summary.removed = RemovedIn(f.out.content)
                /\ (command = "notify-email" /\ report # NoReport) =>
                      \E i \in 1..Len(report.body) :
                          /\ report.body[i].section = "forget"
                          /\ report.body[i].marker # ""
                          /\ report.body[i].text =
                                IF RemovedIn(f.out.content) = 0
                                THEN <<"No snapshots removed">>
                                ELSE <<ToString(RemovedIn(f.out.content)),
                                       "snapshots removed">>

----------------------------------------------------------------------------
(* C20 *)

\* cleanup is about to run with its one argument.
CleanupRuns ==
    pc = "Execute" /\ command = "cleanup" /\ args = 1

\* The step takes the directory away.
Removes ==
    logDir.exists /\ ~logDir'.exists

\* The step has analyzed the directory, all its actions having exit code 0.
AllSucceeded ==
    /\ logDir.exists
    /\ analysis'.err = "nil"
    /\ \A f \in KnownFiles : ExitZero(f)

\* What holds of cleanup when it removes nothing.
CleanupKeeps ==
    /\ (logDir.exists /\ analysis'.err = "nil" /\ \E f \in KnownFiles : ~ExitZero(f)) =>
          /\ logDir' = logDir
          /\ result' = "nil"
    /\ (~logDir.exists \/ analysis'.err # "nil") =>
          /\ logDir' = logDir
          /\ result' \in {"log directory does not exist",
                          "failed to analyze backup results"}

\* C20, as claimed: cleanup removes the directory if and only if the analysis
\* succeeds and every action has exit code 0; with a failed action it leaves
\* the directory untouched and returns nil; without a directory or with a
\* failed analysis it returns an error and removes nothing.
C20_RemovesIffAllSucceeded ==
    [][CleanupRuns => /\ Removes <=> AllSucceeded
                      /\ CleanupKeeps]_vars

\* C20, amended: cleanup removes the directory if and only if the analysis
\* succeeds, every action has exit code 0 and the removal itself does not
\* fail; a removal that fails returns an error.  The rest is as claimed.
C20_RemovesUnlessRemovalFails ==
    [][CleanupRuns => /\ Removes => AllSucceeded /\ result' = "nil"
                      /\ AllSucceeded =>
                            \/ Removes /\ result' = "nil"
                            \/ logDir'.exists /\ result' = "failed to remove log directory"
                      /\ CleanupKeeps]_vars

\* cleanup has removed a directory of two actions that succeeded.
C20_Witness ==
    /\ pc = "done" /\ command = "cleanup" /\ args = 1
    /\ ~logDir.exists
    /\ result = "nil"
    /\ Len(analysis.actions) = 2
    /\ analysis.overallSuccess

----------------------------------------------------------------------------
(* C21 *)

\* The URL notify-http is to request after a failure.
FailURL(url) ==
    (IF Len(url) > 0 /\ url[Len(url)] = "/" THEN SubSeq(url, 1, Len(url) - 1) ELSE url)
        \o <<"/", "f", "a", "i", "l">>

----------------------------------------------------------------------------
(* C22 *)

\* wait-online has returned from its loop.
Waited ==
    command = "wait-online" /\ pc = "done" /\ args = 0

\* C22, as claimed: wait-online returns an error exactly when the URL was
\* not reached with a 2xx answer within the timeout, measured from the start
\* of Execute.
C22_ErrorIffNotReachedInTime ==
    Waited =>
        (result # "nil" <=> ~(wait.reachedAt \in 0..wait.config.Timeout))

----------------------------------------------------------------------------
(* C23 *)

\* C23, as claimed: the delays slept start at initial-delay, double after
\* every failed retry and never exceed max-delay.
C23_BackoffCapped ==
    command = "wait-online" =>
        /\ \A i \in 1..Len(wait.sleeps) : wait.sleeps[i] <= wait.config.MaxDelay
        /\ Len(wait.sleeps) > 0 => wait.sleeps[1] = wait.config.InitialDelay
        /\ \A i \in 2..Len(wait.sleeps) :
              wait.sleeps[i] = IF 2 * wait.sleeps[i - 1] <= wait.config.MaxDelay
                               THEN 2 * wait.sleeps[i - 1]
                               ELSE wait.config.MaxDelay

----------------------------------------------------------------------------
(* C24 *)

\* generateBodyFromActions has returned a body for the results.
Rendered ==
    command = "render" /\ pc = "done"

\* The snapshots the report was rendered from.
RenderedSnapshots ==
    analysis.actions[1].Summary.snapshots

\* The Path lines of the report, and the rows under one path.
PathLines ==
    SelectSeq(report.body, LAMBDA line : line.section = "path")

RowsOf(path) ==
    SelectSeq(report.body, LAMBDA line : line.section = "row" /\ line.name = path)

\* C24: rendering is a function of the results and the status: whatever the
\* order in which the map of the path groups is ranged over, the body is the
\* same, its path sections being in the order of their keys and the rows of
\* a section in the order of the input.
C24_RenderingIsPure ==
    Rendered =>
        /\ \A body \in generateBodyFromActions(analysis.actions, analysis.overallSuccess) :
              body = report.body
        /\ \A i, j \in 1..Len(PathLines) :
              i < j => StrLess(PathLines[i].name, PathLines[j].name)
        /\ \A i \in 1..Len(PathLines) :
              RowsOf(PathLines[i].name) =
                  LET snaps == SelectSeq(RenderedSnapshots,
                                         LAMBDA snap : GroupKey(snap) = PathLines[i].name)
                  IN  [k \in 1..Len(snaps) |->
                          BodyLine("row", "", PathLines[i].name, TimeStr(snaps[k].Time))]

\* Three path groups given in the reverse order of their keys: the report
\* has them sorted.
C24_Witness ==
    /\ Rendered
    /\ Len(RenderedSnapshots) = 3
    /\ RenderedSnapshots[1].Paths = <<PathB>>
    /\ RenderedSnapshots[2].Paths = <<PathA, PathB>>
    /\ RenderedSnapshots[3].Paths = <<PathA>>
    /\ Len(PathLines) = 3
    /\ PathLines[1].name = PathA
    /\ PathLines[3].name = PathB

----------------------------------------------------------------------------
(* C26 *)

\* C26, as claimed: in the snapshots section the snapshots are grouped by
\* their paths and the rows of a group are listed newest first, whatever
\* their order in the input.
C26_NewestFirst ==
    Rendered =>
        \A i \in 1..Len(PathLines) :
            LET path == PathLines[i].name
                snaps == SelectSeq(RenderedSnapshots, LAMBDA snap : GroupKey(snap) = path)
            IN  \E p \in IndexPerms(Len(snaps)) :
                    /\ \A k, l \in 1..Len(snaps) :
                          k < l => ~Before(snaps[p[k]].Time, snaps[p[l]].Time)
                    /\ RowsOf(path) =
                          [k \in 1..Len(snaps) |->
                              BodyLine("row", "", path, TimeStr(snaps[p[k]].Time))]

----------------------------------------------------------------------------
(* C25 *)

\* The output of the one backup artifact of the directory, and its lines
\* that are not empty.
BackupOutput ==
    (CHOOSE f \in logDir.files : HasPrefix(f.base, BackupPrefix)).out.content

\* The directory holds one artifact, a backup with an exit code and an
\* output.
OneBackup ==
    /\ command = "notify-email"
    /\ Cardinality(logDir.files) = 1
    /\ \A f \in logDir.files : /\ HasPrefix(f.base, BackupPrefix)
                                /\ f.out.present
                                /\ f.exitcode \in {<<"0">>, <<"0", "\n">>, <<"1">>}

FilledLines ==
    SelectSeq(BackupOutput, LAMBDA line : line # BlankLine)

\* C25: the result of the backup parser is that of the last non-empty line
\* of the output, whatever comes before it: without a non-empty line the
\* result is all zero and there is no error; a last non-empty line that is
\* not valid JSON (or is no object) is an error, and no result; and a last
\* non-empty line that is an object gives its numbers.
C25_LastLineOnly ==
    (Analyzed /\ OneBackup) =>
        IF FilledLines = <<>>
        THEN /\ analysis.err = "nil"
             /\ Len(analysis.actions) = 1
             /\ analysis.actions[1].Summary = NoSummary
        ELSE IF FilledLines[Len(FilledLines)].kind = "object"
        THEN /\ analysis.err = "nil"
             /\ Len(analysis.actions) = 1
             /\ analysis.actions[1].Summary =
                   [NoSummary EXCEPT !.files_new = FilledLines[Len(FilledLines)].files_new]
        ELSE /\ analysis.err = "failed to parse backup output"
             /\ analysis.actions = <<>>

\* A line of text, an object with 2 new files and a blank line after it: the
\* result has 2 new files.
C25_Witness ==
    /\ Analyzed
    /\ command = "notify-email"
    /\ Cardinality(logDir.files) = 1
    /\ \E f \in logDir.files :
          f.out.content = <<TextLine, ObjectLine(2, 0), BlankLine>>
    /\ analysis.err = "nil"
    /\ Len(analysis.actions) = 1
    /\ analysis.actions[1].Summary.files_new = 2


----------------------------------------------------------------------------
(* C27 *)

\* The snapshots whose Time parses, in input order.
DatedSnapshots ==
    SelectSeq(snapshots, LAMBDA snap : snap.Time.ok)

\* C27: a snapshot whose Time does not parse is left out of the retention
\* check only.  It occupies no bucket and is not counted in total_snaps, no
\* error is returned and no violation is about it: the retention violations
\* are those of the list without the snapshots whose Time does not parse.  In
\* the size check it is compared like any other snapshot, ordered as the
\* earliest of its PathGroup.
C27_UnparsableTimeRetentionOnly ==
    RetentionChecked =>
        /\ result = "none"
        /\ retentionViolations \in checkRetentionPolicy(DatedSnapshots, config)
        /\ \A n \in 1..Len(retentionViolations) :
              LET v == retentionViolations[n]
              IN  /\ v.total_snaps = Cardinality(Dated(v.Path))
                  /\ v.actual = Occupied(v.Path, v.policy)
        /\ \A key \in PathGroups : UniqueLatestPair(key) =>
              \A pr \in LatestPairs(key) :
                  SizeViolationsOf(key) = VerdictOf(key, pr, config)

\* A PathGroup of a snapshot of 1000 bytes whose Time does not parse and a
\* later one of 1200 bytes, every keep count 1: the growth from the first to
\* the second is reported and no retention violation is.
C27_Witness ==
    /\ RetentionChecked
    /\ config.KeepHourly = 1 /\ config.KeepYearly = 1
    /\ \E key \in PathGroups :
          /\ Cardinality(Members(key)) = 2
          /\ Cardinality(Dated(key)) = 1
          /\ RetentionViolationsOf(key) = <<>>
          /\ Len(SizeViolationsOf(key)) = 1
          /\ ~SizeViolationsOf(key)[1].previous_time.ok
          /\ SizeViolationsOf(key)[1].CheckType = "size_growth"


----------------------------------------------------------------------------
(* C28 *)

\* The violations of a list come by PathGroup, the keys in sorted order.
KeyOrdered(violations) ==
    \A m, n \in 1..Len(violations) :
        m < n => ~StrLess(violations[n].Path, violations[m].Path)

\* C28, as claimed: each check emits its violations in one order fixed by the
\* snapshot list and the configuration, the PathGroup keys taken in sorted
\* order, whatever the iteration order of the map.
C28_SortedGroupOrder ==
    /\ SizeChecked => KeyOrdered(sizeViolations)
    /\ RetentionChecked => KeyOrdered(retentionViolations)


----------------------------------------------------------------------------
(* C29 *)

\* The latest and the second latest snapshot of a PathGroup have the same
\* size, and it is not zero.
Unchanged(key) ==
    /\ LatestPairs(key) # {}
    /\ \A pr \in LatestPairs(key) :
          /\ snapshots[pr[1]].Size = snapshots[pr[2]].Size
          /\ snapshots[pr[1]].Size # 0

\* C29, as claimed: a PathGroup whose two most recent snapshots have the same
\* non-zero size (a change of 0%) gets no size violation, whatever the
\* non-negative thresholds, a threshold of 0 included.
C29_NoChangeNoViolation ==
    SizeChecked =>
        \A key \in PathGroups : Unchanged(key) => SizeViolationsOf(key) = <<>>

\* The same for the configurations whose shrink threshold is not 0.
NoChangeNoViolationOverZero ==
    (SizeChecked /\ config.ShrinkThreshold > 0) =>
        \A key \in PathGroups : Unchanged(key) => SizeViolationsOf(key) = <<>>


----------------------------------------------------------------------------
(* C30 *)

\* bucketCount of a policy for a PathGroup, as checkRetentionPolicy counts it.
BucketsOf(key, name) ==
    BucketCount(name, SnapsWithTime(GroupByPath(snapshots)[key]))

\* C30: for every PathGroup the bucket counts are nested: yearly <= monthly
\* <= daily <= hourly <= the number of snapshots whose Time parses, and weekly
\* <= daily; the counts and total_snaps of the violations emitted are these.
C30_NestedBucketCounts ==
    RetentionChecked =>
        /\ \A key \in PathGroups :
              /\ BucketsOf(key, "yearly") <= BucketsOf(key, "monthly")
              /\ BucketsOf(key, "monthly") <= BucketsOf(key, "daily")
              /\ BucketsOf(key, "daily") <= BucketsOf(key, "hourly")
              /\ BucketsOf(key, "hourly") <= Cardinality(Dated(key))
              /\ BucketsOf(key, "weekly") <= BucketsOf(key, "daily")
        /\ \A n \in 1..Len(retentionViolations) :
              LET v == retentionViolations[n]
              IN  /\ v.actual = BucketsOf(v.Path, v.policy)
                  /\ v.actual <= v.total_snaps
                  /\ v.total_snaps = Cardinality(Dated(v.Path))

\* A PathGroup of three snapshots of one day, two of them within one hour,
\* every keep count 1: 1 daily bucket, 2 hourly ones, 3 snapshots, and the
\* hourly violation reports 2 of 3.
C30_Witness ==
    /\ RetentionChecked
    /\ \E key \in PathGroups :
          /\ Cardinality(Dated(key)) = 3
          /\ BucketsOf(key, "hourly") = 2
          /\ BucketsOf(key, "daily") = 1
          /\ Len(RetentionViolationsFor(key, "hourly")) = 1
          /\ RetentionViolationsFor(key, "hourly")[1].actual = 2
          /\ RetentionViolationsFor(key, "hourly")[1].total_snaps = 3

====
